---- MODULE Spec2Model ----
(***************************************************************************)
(* A model of netcrab: the tick-driven link/node runtime (src/src/net.rs), *)
(* the learning Ethernet switch (src/src/node/eth.rs) and the node types   *)
(* that attach to links (src/src/node).                                    *)
(*                                                                         *)
(* Indices keep the source's values: node and link indices start at 0, so  *)
(* the k-th element of a Vec is element k+1 of the sequence modelling it.  *)
(* A queue entry carries, besides the frame (data), two history fields     *)
(* that the program does not have: from (the node that called send) and    *)
(* age (the number of Network::tick calls begun since the send). A         *)
(* listener call is recorded with the arguments the listener gets (src,    *)
(* dst, data) and with history: the frame's from and age, by (the node     *)
(* that called recv), the link, the queue popped (rx) and its length       *)
(* before the pop (depth). Every successful recv is recorded too, as a     *)
(* record of the same shape with lis = 0 that precedes its listener calls. *)
(***************************************************************************)
EXTENDS Naturals, Integers, Sequences, FiniteSets, TLC

VARIABLES nodes, queues, listeners, panicked, obs, hist

vars == <<nodes, queues, listeners, panicked, obs, hist>>

(* ------------------------------ bounds ------------------------------- *)

\* Frames the harness of LinkSpec sends in one run.
MaxSends == 4

\* Frames the peers of SwitchSpec send in one run.
MaxFrames == 2

\* Links made in one run of Spec, and the longest queue a tick may leave.
MaxLinks == 1
MaxQueue == 2

\* Listeners subscribed in one run of Spec.
MaxListeners == 2

(* --------------------------- value helpers --------------------------- *)

None == [some |-> FALSE]

Some(v) == [some |-> TRUE, v |-> v]

EmptyMap == <<>>

MapPut(m, k, v) == [x \in (DOMAIN m) \cup {k} |-> IF x = k THEN v ELSE m[x]]

Last(s) == s[Len(s)]

Front(s) == SubSeq(s, 1, Len(s) - 1)

SeqToSet(s) == {s[i] : i \in 1..Len(s)}

RECURSIVE SetMax(_)
SetMax(S) == LET x == CHOOSE y \in S : TRUE
             IN IF S = {x} THEN x
                ELSE LET m == SetMax(S \ {x}) IN IF x > m THEN x ELSE m

(* ------------------------- addresses, frames ------------------------- *)

MAC0 == <<0, 0, 94, 0, 83, 175>>
MAC1 == <<0, 0, 94, 0, 83, 176>>
MAC2 == <<0, 0, 94, 0, 83, 82>>
BROADCAST == <<255, 255, 255, 255, 255, 255>>
ZERO == <<0, 0, 0, 0, 0, 0>>

is_unicast(mac) == (mac[1] % 2) = 0

is_multicast(mac) == ~is_unicast(mac)

\* The frame types a link can carry (the T of Network::link::<T>).
Types == {"EthFrame", "Ipv4Packet"}

Custom(v) == [tag |-> "Custom", bytes |-> v]

EthFrame(src, dst, payload) == [src |-> src, dst |-> dst, payload |-> payload]

(* ------------------------------ handles ------------------------------ *)

Sides == {"Side0", "Side1"}

OtherSide(s) == IF s = "Side0" THEN "Side1" ELSE "Side0"

new_pair_swapped(T, index) ==
    << [index |-> index, side |-> "Side1", ty |-> T],
       [index |-> index, side |-> "Side1", ty |-> T] >>

new_pair(T, index) ==
    << [index |-> index, side |-> "Side0", ty |-> T],
       [index |-> index, side |-> "Side1", ty |-> T] >>

cast_any(raw, T) == Some([index |-> raw.index, side |-> raw.side, ty |-> T])

cast(raw, T) ==
    IF raw.ty = T
    THEN Some([index |-> raw.index, side |-> raw.side, ty |-> T])
    ELSE None

(* ---------------------------- link views ----------------------------- *)

NewLinkQueues_untyped(T, node_0, node_1) ==
    [ty |-> "EthFrame", queue_0 |-> <<>>, queue_1 |-> <<>>,
     node_0 |-> node_0, node_1 |-> node_1]

\* LinkQueues::<T> as Network::link creates it; ty is T's TypeId, which the
\* downcast in Links::get compares.
NewLinkQueues(T, node_0, node_1) ==
    [ty |-> T, queue_0 |-> <<>>, queue_1 |-> <<>>,
     node_0 |-> node_0, node_1 |-> node_1]

LinksGet_reflect(qs, link) ==
    LET q == qs[link.index + 1]
    IN [err |-> "none", idx |-> link.index + 1, ty |-> q.ty,
        tx |-> "queue_0", rx |-> "queue_0",
        tx_node |-> q.node_1, rx_node |-> q.node_0]

\* Links::get: the view of a link through one of its handles, or the panic
\* it ends with.
LinksGet(qs, link) ==
    IF link.index + 1 \notin 1..Len(qs)
    THEN [err |-> "invalid link"]
    ELSE LET q == qs[link.index + 1]
         IN IF q.ty # link.ty
            THEN [err |-> "incoherent link type"]
            ELSE IF link.side = "Side0"
                 THEN [err |-> "none", idx |-> link.index + 1, ty |-> q.ty,
                       tx |-> "queue_0", rx |-> "queue_1",
                       tx_node |-> q.node_1, rx_node |-> q.node_0]
                 ELSE [err |-> "none", idx |-> link.index + 1, ty |-> q.ty,
                       tx |-> "queue_1", rx |-> "queue_0",
                       tx_node |-> q.node_0, rx_node |-> q.node_1]

\* Link::send: push at the tail of tx. by is the calling node (history).
LinkSend(qs, view, data, by) ==
    [qs EXCEPT ![view.idx][view.tx] =
        Append(@, [data |-> data, from |-> by, age |-> 0])]

ListenerEvents_self(ls, view, entry, by, depth) ==
    LET hit == SelectSeq([i \in 1..Len(ls) |-> i],
                         LAMBDA i : ls[i].ty = view.ty)
    IN [k \in 1..Len(hit) |->
           [lis |-> hit[k], src |-> view.rx_node, dst |-> view.rx_node,
            data |-> entry.data,
            from |-> entry.from, age |-> entry.age, by |-> by,
            link |-> view.idx - 1, rx |-> view.rx, depth |-> depth]]

ListenerEvents_untyped(ls, view, entry, by, depth) ==
    [k \in 1..Len(ls) |->
        [lis |-> k, src |-> view.tx_node, dst |-> view.rx_node,
         data |-> entry.data,
         from |-> entry.from, age |-> entry.age, by |-> by,
         link |-> view.idx - 1, rx |-> view.rx, depth |-> depth]]

\* UntypedListener::event over the listener list, in subscription order: a
\* listener is called when the frame's dynamic type is its Data type.
ListenerEvents(ls, view, entry, by, depth) ==
    LET hit == SelectSeq([i \in 1..Len(ls) |-> i],
                         LAMBDA i : ls[i].ty = view.ty)
    IN [k \in 1..Len(hit) |->
           [lis |-> hit[k], src |-> view.tx_node, dst |-> view.rx_node,
            data |-> entry.data,
            from |-> entry.from, age |-> entry.age, by |-> by,
            link |-> view.idx - 1, rx |-> view.rx, depth |-> depth]]

\* History: the record of one successful recv.
RecvMark(view, entry, by, depth) ==
    [lis |-> 0, src |-> view.tx_node, dst |-> view.rx_node,
     data |-> entry.data,
     from |-> entry.from, age |-> entry.age, by |-> by,
     link |-> view.idx - 1, rx |-> view.rx, depth |-> depth]

LinkRecv_fifo(qs, ls, view, by) ==
    LET rx == qs[view.idx][view.rx]
    IN IF rx = <<>>
       THEN [data |-> None, qs |-> qs, events |-> <<>>]
       ELSE [data |-> Some(Head(rx).data),
             qs |-> [qs EXCEPT ![view.idx][view.rx] = Tail(rx)],
             events |-> <<RecvMark(view, Head(rx), by, Len(rx))>>
                       \o ListenerEvents(ls, view, Head(rx), by, Len(rx))]

\* Link::recv: pop the tail of rx, then call every listener.
LinkRecv(qs, ls, view, by) ==
    LET rx == qs[view.idx][view.rx]
    IN IF rx = <<>>
       THEN [data |-> None, qs |-> qs, events |-> <<>>]
       ELSE [data |-> Some(Last(rx).data),
             qs |-> [qs EXCEPT ![view.idx][view.rx] = Front(rx)],
             events |-> <<RecvMark(view, Last(rx), by, Len(rx))>>
                       \o ListenerEvents(ls, view, Last(rx), by, Len(rx))]

(* ------------------------------ routing ------------------------------ *)

\* IpPrefix { addr, prefix_len }
IpPrefix(addr, prefix_len) == [addr |-> addr, prefix_len |-> prefix_len]

\* IpPrefix::ZERO, the zero-length prefix.
IpPrefixZERO == IpPrefix(<<0, 0, 0, 0>>, 0)

\* The octet with its bits highest bits kept: octet & (0xFF << (8 - bits)).
KeepBits(octet, bits) == octet - (octet % (2 ^ (8 - bits)))

\* The number of bits of octet j (1 to 4) that a mask of prefix_len
\* leading ones covers.
MaskBits(prefix_len, j) ==
    IF prefix_len >= 8 * j THEN 8
    ELSE IF prefix_len <= 8 * (j - 1) THEN 0
         ELSE prefix_len - 8 * (j - 1)

\* u32::MAX << (32 - prefix_len) with prefix_len = 0 shifts a u32 by 32:
\* a build with overflow checks panics there.
ShiftPanics(prefix_len, build) == prefix_len = 0 /\ build = "debug"

\* Ipv4Addr::take_prefix where it does not panic:
\* num & (u32::MAX << (32 - prefix_len)), octet by octet. Without overflow
\* checks the shift by 32 is a shift by 32 % 32 = 0 and the mask keeps
\* every bit.
take_prefix(ip, prefix_len) ==
    IF prefix_len = 0
    THEN IpPrefix(ip, prefix_len)
    ELSE IpPrefix([j \in 1..4 |-> KeepBits(ip[j], MaskBits(prefix_len, j))],
                  prefix_len)

\* IpPrefix::matches
matches(prefix, ip) == prefix.addr = take_prefix(ip, prefix.prefix_len).addr

\* IpRouteKind
NextHop(next_hop) == [tag |-> "NextHop", next_hop |-> next_hop]

Iface(iface) == [tag |-> "Iface", iface |-> iface]

\* Route { prefix, kind }
Route(prefix, kind) == [prefix |-> prefix, kind |-> kind]

\* IpRoutes::new
IpRoutesNew == [routes |-> <<>>, default |-> None]

\* IpRoutes::add_route
add_route(rt, prefix, kind) == [rt EXCEPT !.routes = Append(@, Route(prefix, kind))]

\* IpRoutes::set_default_route
set_default_route(rt, kind) == [rt EXCEPT !.default = Some(kind)]

\* The recursion budget of IpRoutes::fetch.
FetchRecursion == 255

\* IpRoutes::fetch_inner is a walk: each call scans the routes for the
\* first one matching ip and either returns or calls itself for that
\* route's next hop with recursion - 1. A walk is [ip, recursion, done,
\* err, v]: the arguments of the current call, whether a call has
\* returned, and then err ("none" or "panic") and the Option<(usize, T)>
\* returned. ScanRoutes is the loop of one call from the k-th route on.
RECURSIVE ScanRoutes(_, _, _, _)
ScanRoutes(rt, x, k, build) ==
    IF k > Len(rt.routes)
    THEN [x EXCEPT !.done = TRUE]
    ELSE LET route == rt.routes[k]
         IN IF ShiftPanics(route.prefix.prefix_len, build)
            THEN [x EXCEPT !.done = TRUE, !.err = "panic"]
            ELSE IF matches(route.prefix, x.ip)
                 THEN IF route.kind.tag = "Iface"
                      THEN [x EXCEPT !.done = TRUE,
                                     !.v = Some(<<route.kind.iface, route.prefix.addr>>)]
                      ELSE [x EXCEPT !.ip = route.kind.next_hop,
                                     !.recursion = @ - 1]
                 ELSE ScanRoutes(rt, x, k + 1, build)

FetchStep_unguarded(rt, x, build) ==
    IF x.done THEN x ELSE ScanRoutes(rt, x, 1, build)

\* One call of fetch_inner.
FetchStep(rt, x, build) ==
    IF x.done THEN x
    ELSE IF x.recursion > 0
         THEN ScanRoutes(rt, x, 1, build)
         ELSE [x EXCEPT !.done = TRUE]

\* n calls in a row, or fewer if one of them returns.
RECURSIVE FetchCalls(_, _, _, _)
FetchCalls(rt, x, n, build) ==
    IF n = 0 THEN x
    ELSE IF n = 1 THEN FetchStep(rt, x, build)
         ELSE LET first == FetchCalls(rt, x, n \div 2, build)
              IN IF first.done
                 THEN first
                 ELSE FetchCalls(rt, first, n - (n \div 2), build)

\* IpRoutes::fetch_inner: at most recursion + 1 nested calls.
fetch_inner(rt, ip, recursion, build) ==
    LET x == FetchCalls(rt, [ip |-> ip, recursion |-> recursion, done |-> FALSE,
                             err |-> "none", v |-> None],
                        recursion + 1, build)
    IN [err |-> x.err, v |-> x.v]

\* IpRoutes::fetch
fetch(rt, ip, build) == fetch_inner(rt, ip, FetchRecursion, build)

(* ------------------------------- nodes ------------------------------- *)

NoopNode(T) == [kind |-> "noop", ty |-> T, links |-> <<>>]

EthNode == [kind |-> "eth", links |-> <<>>]

EthSwitch ==
    [kind |-> "switch", link_handles |-> EmptyMap, mac_to_iface |-> EmptyMap,
     broadcast_queue |-> <<>>, unicast_queue |-> <<>>]

\* ServerNode::new
ServerNode == [kind |-> "server", ifaces |-> EmptyMap, ipv4_routes |-> IpRoutesNew]

\* Node::link of each node type: [ok, node].
NodeLink(node, iface, raw) ==
    CASE node.kind = "noop" ->
           IF cast(raw, node.ty).some
           THEN [ok |-> TRUE,
                 node |-> [node EXCEPT !.links = Append(@, cast(raw, node.ty).v)]]
           ELSE [ok |-> FALSE, node |-> node]
      [] node.kind = "eth" ->
           IF cast(raw, "EthFrame").some
           THEN [ok |-> TRUE,
                 node |-> [node EXCEPT !.links = Append(@, cast(raw, "EthFrame").v)]]
           ELSE [ok |-> FALSE, node |-> node]
      [] node.kind = "switch" ->
           IF cast(raw, "EthFrame").some
           THEN [ok |-> TRUE,
                 node |-> [node EXCEPT !.link_handles =
                              MapPut(@, iface, cast(raw, "EthFrame").v)]]
           ELSE [ok |-> FALSE, node |-> node]
      [] node.kind = "server" ->
           IF iface \in DOMAIN node.ifaces
           THEN IF cast(raw, "EthFrame").some
                THEN [ok |-> TRUE,
                      node |-> [node EXCEPT !.ifaces[iface].link =
                                   cast(raw, "EthFrame")]]
                ELSE [ok |-> FALSE, node |-> node]
           ELSE [ok |-> FALSE, node |-> node]

(* ------------------------- network operations ------------------------ *)

\* A network value: the fields of Network plus the panic it ended with.
NewNetwork == [nodes |-> <<>>, queues |-> <<>>, listeners |-> <<>>,
               panicked |-> "none"]

NetPush(net, node) == [net EXCEPT !.nodes = Append(@, node)]

NetSubscribe(net, T) == [net EXCEPT !.listeners = Append(@, [ty |-> T])]

NetLink_lenient(net, T, node_0, iface_0, node_1, iface_1) ==
    LET index == Len(net.queues)
        pair == new_pair(T, index)
        r0 == NodeLink(net.nodes[node_0 + 1], iface_0, pair[1])
        nodes0 == [net.nodes EXCEPT ![node_0 + 1] = r0.node]
        r1 == NodeLink(nodes0[node_1 + 1], iface_1, pair[2])
        nodes1 == [nodes0 EXCEPT ![node_1 + 1] = r1.node]
    IN IF ~r0.ok
       THEN [net EXCEPT !.panicked = "link"]
       ELSE [net EXCEPT !.nodes = nodes1,
                        !.queues = Append(@, NewLinkQueues(T, node_0, node_1))]

\* Network::link::<T>: offer handle_0, then handle_1, then push the record.
NetLink(net, T, node_0, iface_0, node_1, iface_1) ==
    LET index == Len(net.queues)
        pair == new_pair(T, index)
        r0 == NodeLink(net.nodes[node_0 + 1], iface_0, pair[1])
        nodes0 == [net.nodes EXCEPT ![node_0 + 1] = r0.node]
        r1 == NodeLink(nodes0[node_1 + 1], iface_1, pair[2])
        nodes1 == [nodes0 EXCEPT ![node_1 + 1] = r1.node]
    IN IF ~r0.ok
       THEN [net EXCEPT !.panicked = "link"]
       ELSE IF ~r1.ok
            THEN [net EXCEPT !.nodes = nodes0, !.panicked = "link"]
            ELSE [net EXCEPT !.nodes = nodes1,
                             !.queues = Append(@, NewLinkQueues(T, node_0, node_1))]

(* ============================ LinkSpec =============================== *)
(* One link between two nodes, driven through its two handles by every   *)
(* sequence of Link::send and Link::recv.                                *)

LinkNet ==
    NetSubscribe(
      NetSubscribe(
        NetLink(NetPush(NetPush(NewNetwork, NoopNode("EthFrame")),
                        NoopNode("EthFrame")),
                "EthFrame", 0, 0, 1, 0),
        "EthFrame"),
      "Ipv4Packet")

\* The node that holds the handle of a side, and its handle.
SideNode(side) == IF side = "Side0" THEN 0 ELSE 1

SideHandle(side) == nodes[SideNode(side) + 1].links[1]

LinkInit ==
    /\ nodes = LinkNet.nodes
    /\ queues = LinkNet.queues
    /\ listeners = LinkNet.listeners
    /\ panicked = LinkNet.panicked
    /\ obs = <<>>
    /\ hist = [op |-> "init", side |-> None, result |-> None,
               pending |-> {}, nextId |-> 1,
               sent |-> [s \in Sides |-> {}],
               rcvd |-> [s \in Sides |-> <<>>]]

\* The frame the harness sends as its k-th: frames differ in their payload.
LinkFrame(k) == EthFrame(MAC0, MAC1, Custom(k))

LSend(side) ==
    /\ hist.nextId <= MaxSends
    /\ LET view == LinksGet(queues, SideHandle(side))
       IN /\ view.err = "none"
          /\ queues' = LinkSend(queues, view, LinkFrame(hist.nextId), SideNode(side))
          /\ hist' = [hist EXCEPT !.op = "send", !.side = side,
                                  !.result = None, !.pending = {},
                                  !.nextId = @ + 1,
                                  !.sent[side] = @ \cup {hist.nextId}]
    /\ obs' = <<>>
    /\ UNCHANGED <<nodes, listeners, panicked>>

LRecv(side) ==
    /\ LET view == LinksGet(queues, SideHandle(side))
           r == LinkRecv(queues, listeners, view, SideNode(side))
       IN /\ view.err = "none"
          /\ queues' = r.qs
          /\ obs' = r.events
          /\ hist' = [hist EXCEPT
                 !.op = "recv", !.side = side,
                 !.result = IF r.data.some THEN Some(r.data.v.payload.bytes) ELSE None,
                 !.pending = hist.sent[OtherSide(side)] \ SeqToSet(hist.rcvd[side]),
                 !.rcvd[side] = IF r.data.some
                                THEN Append(@, r.data.v.payload.bytes) ELSE @]
    /\ UNCHANGED <<nodes, listeners, panicked>>

LinkNext == \E side \in Sides : LSend(side) \/ LRecv(side)

LinkSpec == LinkInit /\ [][LinkNext]_vars

\* The ids waiting in the two queues of the link.
QueuedIds(q) == [i \in 1..Len(q) |-> q[i].data.payload.bytes]

AllRcvd == SeqToSet(hist.rcvd["Side0"]) \cup SeqToSet(hist.rcvd["Side1"])

AllSent == hist.sent["Side0"] \cup hist.sent["Side1"]

\* C2: recv on one side returns the most recently sent frame of the other
\* side that was not received yet (the frames come back last-in-first-out),
\* and returns nothing when no such frame is left.
C2_RecvIsLifo ==
    hist.op = "recv" =>
        IF hist.pending = {}
        THEN ~hist.result.some
        ELSE hist.result = Some(SetMax(hist.pending))

\* Three frames sent in a row by side 0 came back to side 1 as 3, 2, 1 and
\* the recv after them returned nothing.
C2_Witness ==
    /\ hist.op = "recv"
    /\ hist.side = "Side1"
    /\ ~hist.result.some
    /\ hist.rcvd["Side1"] = <<3, 2, 1>>
    /\ hist.sent["Side0"] = {1, 2, 3}

\* C3: a link neither loses, duplicates nor reflects frames: what a side
\* has received are frames the opposite side sent, each at most once, never
\* a frame of its own, and every frame sent and not yet received is queued
\* in the link, once.
C3_NoLossDupReflect ==
    /\ \A side \in Sides :
         LET r == hist.rcvd[side]
         IN /\ Cardinality(SeqToSet(r)) = Len(r)
            /\ SeqToSet(r) \subseteq hist.sent[OtherSide(side)]
            /\ SeqToSet(r) \cap hist.sent[side] = {}
    /\ LET q == QueuedIds(queues[1].queue_0) \o QueuedIds(queues[1].queue_1)
       IN /\ Cardinality(SeqToSet(q)) = Len(q)
          /\ SeqToSet(q) = AllSent \ AllRcvd
    /\ \A side \in Sides :
         LET view == LinksGet(queues, SideHandle(side))
         IN SeqToSet(QueuedIds(queues[1][view.rx])) =
               hist.sent[OtherSide(side)] \ SeqToSet(hist.rcvd[side])

\* Both sides have sent and received, and a frame is still queued.
C3_Witness ==
    /\ Len(hist.rcvd["Side0"]) >= 1
    /\ Len(hist.rcvd["Side1"]) >= 1
    /\ AllSent \ AllRcvd # {}

(* ============================ node ticks ============================= *)
(* A node tick threads st = [qs, events, err]: the link records, the     *)
(* listener calls made so far and the panic that ended the tick, if any. *)
(* me is the index of the ticking node (history only).                   *)

TickState(qs) == [qs |-> qs, events |-> <<>>, err |-> "none"]

\* while let Some(_) = link.recv() {}
RECURSIVE DrainAll(_, _, _, _)
DrainAll(st, ls, view, me) ==
    LET r == LinkRecv(st.qs, ls, view, me)
    IN IF ~r.data.some
       THEN st
       ELSE DrainAll([st EXCEPT !.qs = r.qs, !.events = @ \o r.events],
                     ls, view, me)

RECURSIVE NoopLinks(_, _, _, _, _)
NoopLinks(st, ls, links, k, me) ==
    IF k > Len(links) \/ st.err # "none"
    THEN st
    ELSE LET view == LinksGet(st.qs, links[k])
         IN IF view.err # "none"
            THEN [st EXCEPT !.err = view.err]
            ELSE NoopLinks(DrainAll(st, ls, view, me), ls, links, k + 1, me)

\* NoopNode::tick
NoopTick(node, qs, ls, me) ==
    [node |-> node, st |-> NoopLinks(TickState(qs), ls, node.links, 1, me),
     log |-> <<>>]

RECURSIVE EthLinks(_, _, _, _, _, _)
EthLinks(st, ls, links, k, frame, me) ==
    IF k > Len(links) \/ st.err # "none"
    THEN st
    ELSE LET view == LinksGet(st.qs, links[k])
         IN IF view.err # "none"
            THEN [st EXCEPT !.err = view.err]
            ELSE EthLinks(
                   DrainAll([st EXCEPT !.qs = LinkSend(st.qs, view, frame, me)],
                            ls, view, me),
                   ls, links, k + 1, frame, me)

\* EthNode::tick: frame is what the sender closure returned for this tick.
\* The closure's argument, the counter index, is not modelled: the frame is
\* any frame of the input set.
EthTick(node, qs, ls, frame, me) ==
    [node |-> node, st |-> EthLinks(TickState(qs), ls, node.links, 1, frame, me),
     log |-> <<>>]

(* ------------------------------ switch ------------------------------- *)
(* The switch tick threads sw = [qs, events, err, table, bq, uq, rx, tx]. *)
(* rx and tx are history: rx lists every received frame with its          *)
(* interface, the MAC table right after learning from it (table) and      *)
(* right before it (old); tx lists every send with its interface. An      *)
(* entry of bq, uq and tx carries ev, the position in rx of the receive   *)
(* it comes from.                                                         *)

SwLearn_keep(table, src, iface) ==
    IF src \in DOMAIN table THEN table ELSE MapPut(table, src, iface)

\* self.mac_to_iface.insert(frame.src, *iface)
SwLearn(table, src, iface) == MapPut(table, src, iface)

SwClassify_rxiface(table, frame, iface) ==
    IF is_multicast(frame.dst)
    THEN [queue |-> "broadcast", iface |-> iface]
    ELSE IF frame.dst \in DOMAIN table
         THEN [queue |-> "unicast", iface |-> iface]
         ELSE [queue |-> "broadcast", iface |-> iface]

SwClassify_flood(table, frame, iface) ==
    [queue |-> "broadcast", iface |-> iface]

\* The queue a received frame is pushed on, and the interface pushed with it.
SwClassify(table, frame, iface) ==
    IF is_multicast(frame.dst)
    THEN [queue |-> "broadcast", iface |-> iface]
    ELSE IF frame.dst \in DOMAIN table
         THEN [queue |-> "unicast", iface |-> table[frame.dst]]
         ELSE [queue |-> "broadcast", iface |-> iface]

RECURSIVE SwDrain(_, _, _, _, _)
SwDrain(sw, ls, view, iface, me) ==
    LET r == LinkRecv(sw.qs, ls, view, me)
    IN IF ~r.data.some
       THEN sw
       ELSE LET frame == r.data.v
                table == SwLearn(sw.table, frame.src, iface)
                c == SwClassify(table, frame, iface)
                e == [frame |-> frame, iface |-> c.iface, ev |-> Len(sw.rx) + 1]
                sw1 == [sw EXCEPT
                          !.qs = r.qs, !.events = @ \o r.events,
                          !.table = table,
                          !.rx = Append(@, [iface |-> iface, frame |-> frame,
                                            old |-> sw.table, table |-> table]),
                          !.bq = IF c.queue = "broadcast" THEN Append(@, e) ELSE @,
                          !.uq = IF c.queue = "unicast" THEN Append(@, e) ELSE @]
            IN SwDrain(sw1, ls, view, iface, me)

SwDrainAll_first(sw, ls, handles, order, k, me) ==
    IF order = <<>>
    THEN sw
    ELSE LET view == LinksGet(sw.qs, handles[order[1]])
         IN IF view.err # "none"
            THEN [sw EXCEPT !.err = view.err]
            ELSE SwDrain(sw, ls, view, order[1], me)

RECURSIVE SwDrainAll(_, _, _, _, _, _)
SwDrainAll(sw, ls, handles, order, k, me) ==
    IF k > Len(order) \/ sw.err # "none"
    THEN sw
    ELSE LET view == LinksGet(sw.qs, handles[order[k]])
         IN IF view.err # "none"
            THEN [sw EXCEPT !.err = view.err]
            ELSE SwDrainAll(SwDrain(sw, ls, view, order[k], me),
                            ls, handles, order, k + 1, me)

SwFloodTo_all(link_iface, frame_iface) == TRUE

SwFloodTo_back(link_iface, frame_iface) == link_iface = frame_iface

\* if *link_iface != *frame_iface
SwFloodTo(link_iface, frame_iface) == link_iface # frame_iface

RECURSIVE SwFloodLink(_, _, _, _, _)
SwFloodLink(sw, view, link_iface, k, me) ==
    IF k > Len(sw.bq)
    THEN sw
    ELSE LET e == sw.bq[k]
             sw1 == IF SwFloodTo(link_iface, e.iface)
                    THEN [sw EXCEPT
                            !.qs = LinkSend(sw.qs, view, e.frame, me),
                            !.tx = Append(@, [iface |-> link_iface,
                                              frame |-> e.frame, ev |-> e.ev])]
                    ELSE sw
         IN SwFloodLink(sw1, view, link_iface, k + 1, me)

RECURSIVE SwFlood(_, _, _, _, _)
SwFlood(sw, handles, order, k, me) ==
    IF k > Len(order) \/ sw.err # "none"
    THEN sw
    ELSE LET view == LinksGet(sw.qs, handles[order[k]])
         IN IF view.err # "none"
            THEN [sw EXCEPT !.err = view.err]
            ELSE SwFlood(SwFloodLink(sw, view, order[k], 1, me),
                         handles, order, k + 1, me)

RECURSIVE SwUnicastDown(_, _, _, _)
SwUnicastDown(sw, handles, k, me) ==
    IF k < 1 \/ sw.err # "none"
    THEN sw
    ELSE LET e == sw.uq[k]
         IN IF e.iface \in DOMAIN handles
            THEN LET view == LinksGet(sw.qs, handles[e.iface])
                 IN IF view.err # "none"
                    THEN [sw EXCEPT !.err = view.err]
                    ELSE SwUnicastDown(
                           [sw EXCEPT
                              !.qs = LinkSend(sw.qs, view, e.frame, me),
                              !.tx = Append(@, [iface |-> e.iface,
                                                frame |-> e.frame, ev |-> e.ev])],
                           handles, k - 1, me)
            ELSE SwUnicastDown(sw, handles, k - 1, me)

SwUnicast_rev(sw, handles, k, me) == SwUnicastDown(sw, handles, Len(sw.uq), me)

RECURSIVE SwUnicast(_, _, _, _)
SwUnicast(sw, handles, k, me) ==
    IF k > Len(sw.uq) \/ sw.err # "none"
    THEN sw
    ELSE LET e == sw.uq[k]
         IN IF e.iface \in DOMAIN handles
            THEN LET view == LinksGet(sw.qs, handles[e.iface])
                 IN IF view.err # "none"
                    THEN [sw EXCEPT !.err = view.err]
                    ELSE SwUnicast(
                           [sw EXCEPT
                              !.qs = LinkSend(sw.qs, view, e.frame, me),
                              !.tx = Append(@, [iface |-> e.iface,
                                                frame |-> e.frame, ev |-> e.ev])],
                           handles, k + 1, me)
            ELSE SwUnicast(sw, handles, k + 1, me)

SwClear_keep(queue) == queue

\* self.broadcast_queue.clear(); self.unicast_queue.clear();
SwClear(queue) == <<>>

\* EthSwitch::tick. order is the iteration order of the HashMap
\* link_handles, the same in both loops over it.
SwitchTick(node, qs, ls, order, me) ==
    LET sw0 == [qs |-> qs, events |-> <<>>, err |-> "none",
                table |-> node.mac_to_iface,
                bq |-> SwClear(node.broadcast_queue),
                uq |-> SwClear(node.unicast_queue),
                rx |-> <<>>, tx |-> <<>>]
        sw1 == SwDrainAll(sw0, ls, node.link_handles, order, 1, me)
        sw2 == SwFlood(sw1, node.link_handles, order, 1, me)
        sw3 == SwUnicast(sw2, node.link_handles, 1, me)
    IN [node |-> [node EXCEPT !.mac_to_iface = sw3.table,
                              !.broadcast_queue = sw3.bq,
                              !.unicast_queue = <<>>],
        st |-> [qs |-> sw3.qs, events |-> sw3.events, err |-> sw3.err],
        log |-> [rx |-> sw3.rx, tx |-> sw3.tx, old |-> node.mac_to_iface]]

(* ------------------------------ server ------------------------------- *)
(* An interface driver threads is = [qs, events, err, arp_cache, tx, rx]. *)
(* tx and rx are history: tx lists the frames the interface sent, in      *)
(* order; rx lists every frame it received with the ARP cache before      *)
(* (old) and after (new) the frame was processed and the number of frames *)
(* sent before (sent0) and after (sent1) it. An IPv4 address is the tuple *)
(* of its four octets; an Instant is a number of seconds.                 *)

\* Ipv4Packet: source, destination and payload (the other fields are not
\* read by the code modelled).
Ipv4Packet(src, dst, payload) == [src |-> src, dst |-> dst, payload |-> payload]

\* ServerIfaceIpv4 (ServerIpv4 in server/mod.rs)
ServerIfaceIpv4(ip, mask) == [ip |-> ip, mask |-> mask]

\* std::net::Ipv4Addr::is_multicast: the first octet is 224..239.
ip_is_multicast(ip) == ip[1] \div 16 = 14

\* std::net::Ipv4Addr::is_broadcast
ip_is_broadcast(ip) == ip = <<255, 255, 255, 255>>

from_multicast_ipv4_nomask(ip) == <<1, 0, 94, ip[2], ip[3], ip[4]>>

\* MacAddr::from_multicast_ipv4: [0x01, 0x00, 0x5E, o[1] & 0x7F, o[2], o[3]]
from_multicast_ipv4(ip) == <<1, 0, 94, ip[2] % 128, ip[3], ip[4]>>

Known(mac) == [tag |-> "Known", mac |-> mac]

Pending(time, packets) == [tag |-> "Pending", time |-> time, packets |-> packets]

ArpPayload(arp) == [tag |-> "Arp", arp |-> arp]

Ipv4Payload(packet) == [tag |-> "Ipv4", packet |-> packet]

\* ServerEthIface::new, wrapped as ServerNode::add_interface stores it.
NewIface(mac_addr) ==
    [link |-> None, ipv4 |-> None, mac_addr |-> mac_addr, arp_cache |-> EmptyMap]

IfaceSend(is, view, frame, me) ==
    [is EXCEPT !.qs = LinkSend(is.qs, view, frame, me), !.tx = Append(@, frame)]

DrainOrder_rev(packets) == [k \in 1..Len(packets) |-> packets[Len(packets) + 1 - k]]

\* packets.drain(..): the queued packets from the first to the last.
DrainOrder(packets) == packets

RECURSIVE SendQueued(_, _, _, _, _, _, _)
SendQueued(is, view, mac_addr, mac, packets, k, me) ==
    IF k > Len(packets)
    THEN is
    ELSE SendQueued(
           IfaceSend(is, view, EthFrame(mac_addr, mac, Ipv4Payload(packets[k])), me),
           view, mac_addr, mac, packets, k + 1, me)

set_arp_forget(is, view, mac_addr, ip, mac, me) ==
    IF ip \in DOMAIN is.arp_cache
    THEN IF is.arp_cache[ip].tag = "Pending"
         THEN [SendQueued(is, view, mac_addr, mac,
                          DrainOrder(is.arp_cache[ip].packets), 1, me)
                  EXCEPT !.arp_cache = MapPut(@, ip, Known(mac))]
         ELSE IF is.arp_cache[ip].mac = mac
              THEN is
              ELSE [is EXCEPT !.arp_cache =
                       [x \in DOMAIN is.arp_cache \ {ip} |-> is.arp_cache[x]]]
    ELSE [is EXCEPT !.arp_cache = MapPut(@, ip, Known(mac))]

\* ServerEthIface::set_arp
set_arp(is, view, mac_addr, ip, mac, me) ==
    LET is1 == IF ip \in DOMAIN is.arp_cache
               THEN IF is.arp_cache[ip].tag = "Pending"
                    THEN SendQueued(is, view, mac_addr, mac,
                                    DrainOrder(is.arp_cache[ip].packets), 1, me)
                    ELSE is
               ELSE is
    IN [is1 EXCEPT !.arp_cache = MapPut(@, ip, Known(mac))]

recv_arp_echo(is, view, mac_addr, arp, local_ipv4, me) ==
    set_arp(IF arp.target_ip = local_ipv4
            THEN IfaceSend(is, view,
                   EthFrame(mac_addr, arp.sender_mac,
                     ArpPayload([op |-> "Reply",
                                 sender_mac |-> mac_addr,
                                 target_mac |-> arp.sender_mac,
                                 sender_ip |-> local_ipv4,
                                 target_ip |-> arp.sender_ip])), me)
            ELSE is,
            view, mac_addr, arp.sender_ip, arp.sender_mac, me)

recv_arp_any(is, view, mac_addr, arp, local_ipv4, me) ==
    IF arp.op = "Request"
    THEN set_arp(IfaceSend(is, view,
                   EthFrame(mac_addr, arp.sender_mac,
                     ArpPayload([op |-> "Reply",
                                 sender_mac |-> mac_addr,
                                 target_mac |-> arp.sender_mac,
                                 sender_ip |-> local_ipv4,
                                 target_ip |-> arp.sender_ip])), me),
                 view, mac_addr, arp.sender_ip, arp.sender_mac, me)
    ELSE set_arp(is, view, mac_addr, arp.sender_ip, arp.sender_mac, me)

\* ServerEthIface::recv_arp
recv_arp(is, view, mac_addr, arp, local_ipv4, me) ==
    IF arp.op = "Request"
    THEN LET is1 == IF arp.target_ip = local_ipv4
                    THEN IfaceSend(is, view,
                           EthFrame(mac_addr, arp.sender_mac,
                             ArpPayload([op |-> "Reply",
                                         sender_mac |-> mac_addr,
                                         target_mac |-> arp.sender_mac,
                                         sender_ip |-> local_ipv4,
                                         target_ip |-> arp.sender_ip])), me)
                    ELSE is
         IN set_arp(is1, view, mac_addr, arp.sender_ip, arp.sender_mac, me)
    ELSE set_arp(is, view, mac_addr, arp.sender_ip, arp.sender_mac, me)

\* const ARP_REQUEST_TIMEOUT: Duration = Duration::from_secs(10);
ARP_REQUEST_TIMEOUT == 10

ArpFresh_never(time, now) == FALSE

\* time.elapsed() < ARP_REQUEST_TIMEOUT
ArpFresh(time, now) == now - time < ARP_REQUEST_TIMEOUT

NewPending_empty(now, packet) == Pending(now, <<>>)

\* ArpEntry::Pending { time: Instant::now(), packets: vec![packet] }
NewPending(now, packet) == Pending(now, <<packet>>)

ArpRequest_own_target(mac_addr, ip, link_addr) ==
    EthFrame(mac_addr, BROADCAST,
             ArpPayload([op |-> "Request", sender_mac |-> mac_addr,
                         target_mac |-> ZERO, sender_ip |-> link_addr,
                         target_ip |-> ip]))

\* The ARP request of send_ipv4.
ArpRequest(mac_addr, ip, link_addr) ==
    EthFrame(mac_addr, BROADCAST,
             ArpPayload([op |-> "Request", sender_mac |-> mac_addr,
                         target_mac |-> ZERO, sender_ip |-> ip,
                         target_ip |-> link_addr]))

send_ipv4_requeue(is, view, mac_addr, conf, packet, link_addr, now, me) ==
    LET held == IF link_addr \in DOMAIN is.arp_cache
                THEN is.arp_cache[link_addr].packets
                ELSE <<>>
        request ==
            [IfaceSend(is, view, ArpRequest(mac_addr, conf.ip, link_addr), me)
                EXCEPT !.arp_cache =
                          MapPut(@, link_addr, Pending(now, Append(held, packet)))]
        emit(link_mac) ==
            IfaceSend(is, view, EthFrame(mac_addr, link_mac, Ipv4Payload(packet)), me)
    IN IF ip_is_multicast(link_addr)
       THEN emit(from_multicast_ipv4(link_addr))
       ELSE IF ip_is_broadcast(link_addr)
            THEN emit(BROADCAST)
            ELSE IF link_addr \in DOMAIN is.arp_cache
                 THEN LET entry == is.arp_cache[link_addr]
                      IN IF entry.tag = "Known"
                         THEN emit(entry.mac)
                         ELSE IF ArpFresh(entry.time, now)
                              THEN [is EXCEPT !.arp_cache[link_addr].packets =
                                                 Append(@, packet)]
                              ELSE request
                 ELSE request

\* ServerEthIface::send_ipv4 at the instant now; conf is the interface's
\* ServerIfaceIpv4.
send_ipv4(is, view, mac_addr, conf, packet, link_addr, now, me) ==
    LET request ==
            [IfaceSend(is, view, ArpRequest(mac_addr, conf.ip, link_addr), me)
                EXCEPT !.arp_cache = MapPut(@, link_addr, NewPending(now, packet))]
        emit(link_mac) ==
            IfaceSend(is, view, EthFrame(mac_addr, link_mac, Ipv4Payload(packet)), me)
    IN IF ip_is_multicast(link_addr)
       THEN emit(from_multicast_ipv4(link_addr))
       ELSE IF ip_is_broadcast(link_addr)
            THEN emit(BROADCAST)
            ELSE IF link_addr \in DOMAIN is.arp_cache
                 THEN LET entry == is.arp_cache[link_addr]
                      IN IF entry.tag = "Known"
                         THEN emit(entry.mac)
                         ELSE IF ArpFresh(entry.time, now)
                              THEN [is EXCEPT !.arp_cache[link_addr].packets =
                                                 Append(@, packet)]
                              ELSE request
                 ELSE request

IfaceFilters_none(frame, mac_addr) == FALSE

\* if !frame.dst.is_multicast() && frame.dst != self.mac_addr { continue; }
IfaceFilters(frame, mac_addr) == ~is_multicast(frame.dst) /\ frame.dst # mac_addr

\* ServerEthIface::tick
RECURSIVE EthIfaceTick(_, _, _, _, _, _)
EthIfaceTick(is, ls, view, mac_addr, ipv4, me) ==
    LET r == LinkRecv(is.qs, ls, view, me)
    IN IF ~r.data.some
       THEN is
       ELSE LET frame == r.data.v
                is1 == [is EXCEPT !.qs = r.qs, !.events = @ \o r.events]
                is2 == IF IfaceFilters(frame, mac_addr)
                       THEN is1
                       ELSE IF frame.payload.tag = "Arp" /\ ipv4.some
                            THEN recv_arp(is1, view, mac_addr,
                                          frame.payload.arp, ipv4.v.ip, me)
                            ELSE is1
                is3 == [is2 EXCEPT !.rx = Append(@,
                          [frame |-> frame, old |-> is.arp_cache,
                           new |-> is2.arp_cache,
                           sent0 |-> Len(is.tx), sent1 |-> Len(is2.tx)])]
            IN EthIfaceTick(is3, ls, view, mac_addr, ipv4, me)

\* ServerNode::tick over the interfaces in the order the HashMap yields
\* them; IfaceInner::tick skips an interface that is not linked.
RECURSIVE ServerIfaces(_, _, _, _, _)
ServerIfaces(acc, ls, order, k, me) ==
    IF k > Len(order) \/ acc.st.err # "none"
    THEN acc
    ELSE LET iface == acc.node.ifaces[order[k]]
         IN IF ~iface.link.some
            THEN ServerIfaces(acc, ls, order, k + 1, me)
            ELSE LET view == LinksGet(acc.st.qs, iface.link.v)
                 IN IF view.err # "none"
                    THEN [acc EXCEPT !.st.err = view.err]
                    ELSE LET is == EthIfaceTick(
                                     [qs |-> acc.st.qs, events |-> acc.st.events,
                                      err |-> "none",
                                      arp_cache |-> iface.arp_cache, tx |-> <<>>,
                                      rx |-> <<>>],
                                     ls, view, iface.mac_addr, iface.ipv4, me)
                         IN ServerIfaces(
                              [node |-> [acc.node EXCEPT
                                           !.ifaces[order[k]].arp_cache = is.arp_cache],
                               st |-> [qs |-> is.qs, events |-> is.events,
                                       err |-> is.err],
                               log |-> [acc.log EXCEPT
                                  ![order[k]] = [tx |-> is.tx, rx |-> is.rx]]],
                              ls, order, k + 1, me)

\* History of one interface's tick when it did nothing.
NoIfaceLog == [tx |-> <<>>, rx |-> <<>>]

\* ServerNode::tick; its log maps each interface to what it sent and
\* received in the tick.
ServerTick(node, qs, ls, order, me) ==
    ServerIfaces([node |-> node, st |-> TickState(qs),
                  log |-> [i \in DOMAIN node.ifaces |-> NoIfaceLog]],
                 ls, order, 1, me)

(* --------------------------- Network::tick --------------------------- *)

RECURSIVE PermSeqs(_)
PermSeqs(S) ==
    IF S = {} THEN {<<>>}
    ELSE UNION {{<<x>> \o p : p \in PermSeqs(S \ {x})} : x \in S}

NoInput == [frame |-> None, order |-> <<>>]

\* Node::tick, dispatched on the node type. inp holds what the tick draws
\* from outside the model: the frame of an EthNode's closure, the iteration
\* order of a HashMap.
NodeTick(node, qs, ls, inp, me) ==
    CASE node.kind = "noop" -> NoopTick(node, qs, ls, me)
      [] node.kind = "eth" -> EthTick(node, qs, ls, inp.frame, me)
      [] node.kind = "switch" -> SwitchTick(node, qs, ls, inp.order, me)
      [] node.kind = "server" -> ServerTick(node, qs, ls, inp.order, me)

TickOrder_reverse(n) == [i \in 1..n |-> n + 1 - i]

\* for node in &mut self.nodes
TickOrder(n) == [i \in 1..n |-> i]

RECURSIVE NetTickFrom(_, _, _, _, _)
NetTickFrom(acc, ls, order, k, inps) ==
    IF k > Len(order) \/ acc.err # "none"
    THEN acc
    ELSE LET i == order[k]
             r == NodeTick(acc.nodes[i], acc.qs, ls, inps[i], i - 1)
         IN NetTickFrom(
              [nodes |-> [acc.nodes EXCEPT ![i] = r.node],
               qs |-> r.st.qs,
               events |-> acc.events \o r.st.events,
               err |-> r.st.err,
               logs |-> [acc.logs EXCEPT ![i] = r.log]],
              ls, order, k + 1, inps)

\* History: one more Network::tick has begun since the queued frames were sent.
AgeQueue(q) == [j \in 1..Len(q) |-> [q[j] EXCEPT !.age = IF @ < 2 THEN @ + 1 ELSE @]]

AgeQueues(qs) ==
    [i \in 1..Len(qs) |->
        [qs[i] EXCEPT !.queue_0 = AgeQueue(@), !.queue_1 = AgeQueue(@)]]

\* Network::tick: [nodes, qs, events, err, logs].
NetTick(ns, qs, ls, inps) ==
    NetTickFrom([nodes |-> ns, qs |-> AgeQueues(qs), events |-> <<>>,
                 err |-> "none", logs |-> [i \in 1..Len(ns) |-> <<>>]],
                ls, TickOrder(Len(ns)), 1, inps)

(* =========================== SwitchSpec ============================== *)
(* The topology of main.rs: three nodes registered before a switch and   *)
(* linked to its interfaces 0, 1, 2. The three nodes stand for any node  *)
(* type: between the ticks they send any frames through their handles    *)
(* (PeerSend); in a tick they drain their links as a NoopNode does.      *)
(* History: injected counts the frames sent, sent lists them with the    *)
(* sending node and the switch's MAC table at that time, dlv is the set  *)
(* of (node, frame) receives by the three nodes, sw is the log of the    *)
(* switch's last tick.                                                   *)

SwitchNode == 3

SwNet ==
    LET n0 == NetPush(NetPush(NetPush(NetPush(NewNetwork,
                  NoopNode("EthFrame")), NoopNode("EthFrame")),
                  NoopNode("EthFrame")), EthSwitch)
        n1 == NetLink(n0, "EthFrame", 0, 0, SwitchNode, 0)
        n2 == NetLink(n1, "EthFrame", 1, 0, SwitchNode, 1)
        n3 == NetLink(n2, "EthFrame", 2, 0, SwitchNode, 2)
    IN NetSubscribe(n3, "EthFrame")

\* The frames the peers send: unicast both ways, a broadcast, and a frame
\* addressed to its own source.
SwFrames ==
    {EthFrame(MAC0, MAC1, Custom(1)), EthFrame(MAC1, MAC0, Custom(1)),
     EthFrame(MAC0, BROADCAST, Custom(1)), EthFrame(MAC1, MAC1, Custom(1))}

NoSwLog == [rx |-> <<>>, tx |-> <<>>, old |-> EmptyMap]

SwInit ==
    /\ nodes = SwNet.nodes
    /\ queues = SwNet.queues
    /\ listeners = SwNet.listeners
    /\ panicked = SwNet.panicked
    /\ obs = <<>>
    /\ hist = [op |-> "init", injected |-> 0, sw |-> NoSwLog,
               sent |-> <<>>, dlv |-> {}]

\* The inputs one Network::tick can draw, one per node.
RECURSIVE InputSeqs(_, _, _)
InputSeqs(ns, k, frames) ==
    IF k > Len(ns)
    THEN {<<>>}
    ELSE LET rest == InputSeqs(ns, k + 1, frames)
             here == CASE ns[k].kind = "eth" ->
                            {[frame |-> f, order |-> <<>>] : f \in frames}
                       [] ns[k].kind = "switch" ->
                            {[frame |-> None, order |-> p] :
                                p \in PermSeqs(DOMAIN ns[k].link_handles)}
                       [] ns[k].kind = "server" ->
                            {[frame |-> None, order |-> p] :
                                p \in PermSeqs(DOMAIN ns[k].ifaces)}
                       [] OTHER -> {NoInput}
         IN {<<c>> \o r : c \in here, r \in rest}

PeerSend(p, frame) ==
    /\ hist.injected < MaxFrames
    /\ LET view == LinksGet(queues, nodes[p + 1].links[1])
       IN /\ view.err = "none"
          /\ queues' = LinkSend(queues, view, frame, p)
    /\ hist' = [op |-> "send", injected |-> hist.injected + 1, sw |-> NoSwLog,
                sent |-> Append(hist.sent,
                                [p |-> p, frame |-> frame,
                                 table |-> nodes[SwitchNode + 1].mac_to_iface]),
                dlv |-> hist.dlv]
    /\ obs' = <<>>
    /\ UNCHANGED <<nodes, listeners, panicked>>

\* The state a Network::tick with result r leaves.
SwTickTo(r) ==
    /\ nodes' = r.nodes
    /\ queues' = r.qs
    /\ obs' = r.events
    /\ panicked' = r.err
    /\ hist' = [hist EXCEPT
                   !.op = "tick", !.sw = r.logs[SwitchNode + 1],
                   !.dlv = @ \cup {[to |-> r.events[k].by, frame |-> r.events[k].data] :
                                     k \in {i \in 1..Len(r.events) :
                                               /\ r.events[i].lis = 0
                                               /\ r.events[i].by # SwitchNode}}]
    /\ UNCHANGED listeners

SwNetTick ==
    \E inps \in InputSeqs(nodes, 1, SwFrames) :
       SwTickTo(NetTick(nodes, queues, listeners, inps))

SwNext ==
    \/ \E p \in 0..2, frame \in SwFrames : PeerSend(p, frame)
    \/ SwNetTick

SwitchSpec == SwInit /\ [][SwNext]_vars

\* The switch of SwitchSpec, the receives and the sends of its last tick.
Switch == nodes[SwitchNode + 1]

SwRx == hist.sw.rx

SwTx == hist.sw.tx

\* Interface indices: the attached ones and one that is not attached.
SwIfaces == 0..3

\* The number of sends on interface j that come from the k-th receive.
SwCopies(k, j) ==
    Cardinality({i \in 1..Len(SwTx) : SwTx[i].ev = k /\ SwTx[i].iface = j})

\* What the tick sent on interface j, in order, and what waits on the link
\* of interface j for the node on its other end.
SwSentOn(j) == SelectSeq(SwTx, LAMBDA t : t.iface = j)

SwWire(j) ==
    LET h == Switch.link_handles[j]
        q == queues[h.index + 1]["queue_1"]
    IN [i \in 1..Len(q) |-> q[i].data]

\* After a tick the frames waiting on every attached link are the sends
\* the tick made on that interface, in order.
SwWireIsTx ==
    hist.op = "tick" =>
        \A j \in DOMAIN Switch.link_handles :
            SwWire(j) = [i \in 1..Len(SwSentOn(j)) |-> SwSentOn(j)[i].frame]

SwFloodCase(e) ==
    is_multicast(e.frame.dst) \/ e.frame.dst \notin DOMAIN e.table

\* C8: right after the switch receives a frame on interface i with source
\* MAC m its table maps m to i, whatever the frame's destination and
\* whatever m was mapped to before; the mapping of the last frame received
\* from m is the one the table holds after the tick.
C8_SwitchLearns ==
    \A k \in 1..Len(SwRx) :
        LET e == SwRx[k]
        IN /\ e.frame.src \in DOMAIN e.table
           /\ e.table[e.frame.src] = e.iface
           /\ (\A l \in (k + 1)..Len(SwRx) : SwRx[l].frame.src # e.frame.src)
                 => /\ e.frame.src \in DOMAIN Switch.mac_to_iface
                    /\ Switch.mac_to_iface[e.frame.src] = e.iface

\* A frame arrived on an interface other than the one its source MAC was
\* mapped to.
C8_Witness ==
    \E k \in 1..Len(SwRx) :
        LET e == SwRx[k]
        IN /\ e.frame.src \in DOMAIN e.old
           /\ e.old[e.frame.src] # e.iface
           /\ Switch.mac_to_iface[e.frame.src] = e.iface

\* C9: a frame received on interface i whose destination is multicast, or
\* unicast and not in the MAC table when the frame is processed, is sent in
\* the same tick once on every attached interface other than i and on no
\* other interface.
C9_SwitchFloods ==
    /\ SwWireIsTx
    /\ \A k \in 1..Len(SwRx) :
          SwFloodCase(SwRx[k]) =>
             /\ \A j \in SwIfaces :
                   SwCopies(k, j) =
                      IF j \in DOMAIN Switch.link_handles /\ j # SwRx[k].iface
                      THEN 1 ELSE 0
             /\ \A i \in 1..Len(SwTx) :
                   SwTx[i].ev = k => SwTx[i].frame = SwRx[k].frame

\* One tick flooded a broadcast frame and a frame to an unknown unicast MAC.
C9_Witness ==
    /\ hist.op = "tick"
    /\ \E k \in 1..Len(SwRx) :
          /\ is_multicast(SwRx[k].frame.dst)
          /\ SwCopies(k, SwRx[k].iface) = 0
    /\ \E k \in 1..Len(SwRx) :
          /\ is_unicast(SwRx[k].frame.dst)
          /\ SwRx[k].frame.dst \notin DOMAIN SwRx[k].table
          /\ \E j \in DOMAIN Switch.link_handles : SwCopies(k, j) = 1

\* C10: a received frame whose destination is unicast and in the MAC table
\* when the frame is processed is sent once, on the interface the table
\* maps the destination to, and on no other interface.
C10_SwitchForwards ==
    /\ hist.op = "tick" =>
          \A j \in DOMAIN Switch.link_handles :
             SwWire(j) = [i \in 1..Len(SwSentOn(j)) |-> SwSentOn(j)[i].frame]
    /\ \A k \in 1..Len(SwRx) :
          ~SwFloodCase(SwRx[k]) =>
             /\ \A j \in SwIfaces :
                   SwCopies(k, j) =
                      IF j = SwRx[k].table[SwRx[k].frame.dst] THEN 1 ELSE 0
             /\ \A i \in 1..Len(SwTx) :
                   SwTx[i].ev = k => SwTx[i].frame = SwRx[k].frame

\* A frame was forwarded to the one interface its destination was learned on.
C10_Witness ==
    /\ hist.op = "tick"
    /\ \E k \in 1..Len(SwRx) :
          LET e == SwRx[k]
          IN /\ ~SwFloodCase(e)
             /\ e.table[e.frame.dst] # e.iface
             /\ SwCopies(k, e.table[e.frame.dst]) = 1
             /\ SwWire(e.table[e.frame.dst]) = <<e.frame>>

(* ============================== Spec ================================= *)
(* A network under construction and in use: the nodes of NodeCast are    *)
(* pushed in order, any two pushed nodes are linked with any frame type  *)
(* and interface index, a listener is subscribed, and the network is     *)
(* ticked, in any interleaving. A panic ends the run.                    *)

\* The server is given its interface 0 before it is pushed, as
\* ServerNode::add_interface does: not linked, no IPv4 configuration.
ServerWithIface0 ==
    [ServerNode EXCEPT !.ifaces = MapPut(@, 0, NewIface(MAC2))]

NodeCast ==
    << EthNode, ServerWithIface0, EthNode, NoopNode("Ipv4Packet") >>

\* The frames an EthNode's closure returns.
EthFrames ==
    {EthFrame(MAC0, MAC2, Custom(1)), EthFrame(MAC1, BROADCAST, Custom(2))}

IfaceIds == {0, 1}

\* The two reasons for a node to refuse a link of frame type T on
\* interface iface: the node has no interface of that index (only a
\* ServerNode has a set of interfaces), or T is not the frame type the node
\* (its interface) accepts.
Rejects(node, iface, T) ==
    CASE node.kind = "noop" -> T # node.ty
      [] node.kind = "server" -> iface \notin DOMAIN node.ifaces \/ T # "EthFrame"
      [] OTHER -> T # "EthFrame"

\* History of the last Network::link call: its frame type, the number of
\* link records before it, the handles it offered and whether its
\* endpoints refuse them.
NoLink == [ty |-> "none", index |-> 0, pair |-> <<>>,
           rejects_0 |-> FALSE, rejects_1 |-> FALSE,
           node_0 |-> 0, node_1 |-> 0]

Init ==
    /\ nodes = NewNetwork.nodes
    /\ queues = NewNetwork.queues
    /\ listeners = NewNetwork.listeners
    /\ panicked = NewNetwork.panicked
    /\ obs = <<>>
    /\ hist = [op |-> "init", link |-> NoLink]

Net == [nodes |-> nodes, queues |-> queues, listeners |-> listeners,
        panicked |-> panicked]

Push ==
    /\ panicked = "none"
    /\ Len(nodes) < Len(NodeCast)
    /\ nodes' = NetPush(Net, NodeCast[Len(nodes) + 1]).nodes
    /\ obs' = <<>>
    /\ hist' = [op |-> "push", link |-> NoLink]
    /\ UNCHANGED <<queues, listeners, panicked>>

Subscribe(T) ==
    /\ panicked = "none"
    /\ Len(listeners) < MaxListeners
    /\ listeners' = NetSubscribe(Net, T).listeners
    /\ obs' = <<>>
    /\ hist' = [op |-> "subscribe", link |-> NoLink]
    /\ UNCHANGED <<nodes, queues, panicked>>

Link(T, node_0, iface_0, node_1, iface_1) ==
    /\ panicked = "none"
    /\ Len(queues) < MaxLinks
    /\ node_0 < Len(nodes)
    /\ node_1 < Len(nodes)
    /\ LET r == NetLink(Net, T, node_0, iface_0, node_1, iface_1)
       IN /\ nodes' = r.nodes
          /\ queues' = r.queues
          /\ panicked' = r.panicked
    /\ obs' = <<>>
    /\ hist' = [op |-> "link",
                link |-> [ty |-> T, index |-> Len(queues),
                          pair |-> new_pair(T, Len(queues)),
                          rejects_0 |-> Rejects(nodes[node_0 + 1], iface_0, T),
                          rejects_1 |-> Rejects(nodes[node_1 + 1], iface_1, T),
                          node_0 |-> node_0, node_1 |-> node_1]]
    /\ UNCHANGED listeners

\* The state a Network::tick with result r leaves; the tick is left out of
\* the model when it would leave a queue longer than MaxQueue.
TickTo(r) ==
    /\ \A i \in 1..Len(r.qs) :
          /\ Len(r.qs[i].queue_0) <= MaxQueue
          /\ Len(r.qs[i].queue_1) <= MaxQueue
    /\ nodes' = r.nodes
    /\ queues' = r.qs
    /\ obs' = r.events
    /\ panicked' = r.err

Tick ==
    /\ panicked = "none"
    /\ nodes # <<>>
    /\ \E inps \in InputSeqs(nodes, 1, EthFrames) :
          TickTo(NetTick(nodes, queues, listeners, inps))
    /\ hist' = [op |-> "tick", link |-> NoLink]
    /\ UNCHANGED listeners

Next ==
    \/ Push
    \/ \E T \in Types : Subscribe(T)
    \/ \E T \in Types, node_0 \in 0..(Len(NodeCast) - 1), iface_0 \in IfaceIds,
          node_1 \in 0..(Len(NodeCast) - 1), iface_1 \in IfaceIds :
             Link(T, node_0, iface_0, node_1, iface_1)
    \/ Tick

Spec == Init /\ [][Next]_vars

(* ------------------------- claims about Spec ------------------------- *)

\* The successful recv calls of the last Network::tick, in order.
Recvs == SelectSeq(obs, LAMBDA e : e.lis = 0)

\* The listener calls of the last Network::tick, in order.
Calls == SelectSeq(obs, LAMBDA e : e.lis # 0)

\* C1: within one Network::tick the nodes tick in registration order, so a
\* frame received by a node registered before its sender was sent in an
\* earlier tick (age >= 1), while a node registered after the sender may
\* receive a frame in the tick it was sent in.
C1_TickOrderVisibility ==
    hist.op = "tick" =>
        /\ \A k \in 1..Len(Recvs) : Recvs[k].by < Recvs[k].from => Recvs[k].age >= 1
        /\ \A k \in 1..Len(Recvs), l \in 1..Len(Recvs) :
               k < l => Recvs[k].by <= Recvs[l].by

\* One tick in which a later-registered node receives a frame sent in this
\* tick and an earlier-registered node receives a frame sent in the tick
\* before.
C1_Witness ==
    /\ hist.op = "tick"
    /\ \E k \in 1..Len(Recvs) : Recvs[k].by > Recvs[k].from /\ Recvs[k].age = 0
    /\ \E k \in 1..Len(Recvs) : Recvs[k].by < Recvs[k].from /\ Recvs[k].age = 1

\* Two records of obs come from the same recv call.
SameRecv(e, f) == e.link = f.link /\ e.rx = f.rx /\ e.depth = f.depth

\* C4: every listener observation (src, dst, data) comes from a successful
\* recv by node dst of a frame that node src sent on a link joining src and
\* dst; src is the endpoint opposite to the receiver; a successful recv
\* gives exactly one observation to each listener of the link's frame type
\* and none to the others.
C4_ListenerObservations ==
    hist.op = "tick" =>
        /\ \A k \in 1..Len(Calls) :
              LET e == Calls[k]
                  q == queues[e.link + 1]
              IN /\ \E r \in 1..Len(Recvs) :
                        SameRecv(Recvs[r], e) /\ Recvs[r].data = e.data
                                              /\ Recvs[r].by = e.dst
                 /\ e.src = e.from
                 /\ e.age \in 0..2
                 /\ \/ e.dst = q.node_0 /\ e.src = q.node_1
                    \/ e.dst = q.node_1 /\ e.src = q.node_0
                 /\ listeners[e.lis].ty = q.ty
        /\ \A r \in 1..Len(Recvs), l \in 1..Len(listeners) :
              Cardinality({k \in 1..Len(Calls) :
                              Calls[k].lis = l /\ SameRecv(Calls[k], Recvs[r])})
                 = IF listeners[l].ty = queues[Recvs[r].link + 1].ty THEN 1 ELSE 0

\* A tick in which two listeners observed the same recv of a frame over a
\* link between two different nodes.
C4_Witness ==
    /\ hist.op = "tick"
    /\ \E k \in 1..Len(Calls), l \in 1..Len(Calls) :
          /\ Calls[k].src # Calls[k].dst
          /\ Calls[k].lis # Calls[l].lis
          /\ SameRecv(Calls[k], Calls[l])

\* C5: each raw handle made by Network::link::<T> casts to T, keeping its
\* index and side, and to no other type; the two handles of the link have
\* the same index and opposite sides.
C5_CastContract ==
    hist.op = "link" =>
        LET pair == hist.link.pair
            T == hist.link.ty
        IN /\ \A i \in 1..2 :
                 /\ cast(pair[i], T)
                      = Some([index |-> pair[i].index, side |-> pair[i].side,
                              ty |-> T])
                 /\ \A U \in Types \ {T} : ~cast(pair[i], U).some
           /\ pair[1].index = hist.link.index
           /\ pair[2].index = hist.link.index
           /\ pair[1].side \in Sides
           /\ pair[2].side = OtherSide(pair[1].side)

\* A successful Network::link call: both nodes hold a cast handle.
C5_Witness ==
    /\ hist.op = "link"
    /\ panicked = "none"
    /\ Len(queues) = hist.link.index + 1

\* C6: Network::link panics whenever one of its endpoints has no interface
\* of the given index or does not accept the link's frame type, and then no
\* link record is added.
C6_LinkRejected ==
    hist.op = "link" =>
        /\ (hist.link.rejects_0 \/ hist.link.rejects_1)
              => panicked = "link" /\ Len(queues) = hist.link.index
        /\ panicked = "link" => Len(queues) = hist.link.index

\* A link call that node_0 accepts and node_1 refuses.
C6_Witness ==
    /\ hist.op = "link"
    /\ ~hist.link.rejects_0
    /\ hist.link.rejects_1
    /\ panicked = "link"

\* The handles a node stores.
HandlesOf(node) ==
    CASE node.kind = "switch" ->
           {node.link_handles[i] : i \in DOMAIN node.link_handles}
      [] node.kind = "server" ->
           {node.ifaces[i].link.v :
               i \in {j \in DOMAIN node.ifaces : node.ifaces[j].link.some}}
      [] OTHER -> SeqToSet(node.links)

\* C7: as long as every link call succeeded, Links::get never panics in a
\* tick: every handle a node stores is the index of a link record whose
\* frame type is the handle's.
C7_TickNeverPanics ==
    /\ panicked \notin {"invalid link", "incoherent link type"}
    /\ panicked = "none" =>
          \A n \in 1..Len(nodes) : \A h \in HandlesOf(nodes[n]) :
              /\ h.index + 1 \in 1..Len(queues)
              /\ queues[h.index + 1].ty = h.ty

\* A tick that resolved the handles of a successful link of Ipv4Packet
\* frames without a panic.
C7_Witness ==
    /\ hist.op = "tick"
    /\ panicked = "none"
    /\ \E n \in 1..Len(nodes) : \E h \in HandlesOf(nodes[n]) : h.ty = "Ipv4Packet"

(* -------------------- more claims about SwitchSpec ------------------- *)

\* Two frames with the same source MAC, destination MAC and payload.
SameFrame(f, g) == f.src = g.src /\ f.dst = g.dst /\ f.payload = g.payload

\* C11: the switch never generates frames of its own: every frame it sends
\* in a tick is, in source, destination and payload, a frame it received in
\* that tick, and what it leaves on its links is what it sent; in a tick in
\* which it receives nothing it sends nothing and its MAC table is the one
\* it had before the tick.
C11_SwitchRelaysOnly ==
    hist.op = "tick" =>
        /\ \A i \in 1..Len(SwTx) :
              \E k \in 1..Len(SwRx) : SameFrame(SwTx[i].frame, SwRx[k].frame)
        /\ \A j \in DOMAIN Switch.link_handles :
              SwWire(j) = [i \in 1..Len(SwSentOn(j)) |-> SwSentOn(j)[i].frame]
        /\ SwRx = <<>> =>
              /\ SwTx = <<>>
              /\ Switch.mac_to_iface = hist.sw.old

\* A tick in which the switch, having learned and relayed before, receives
\* nothing.
C11_Witness ==
    /\ hist.op = "tick"
    /\ SwRx = <<>>
    /\ hist.dlv # {}
    /\ Switch.mac_to_iface # EmptyMap

\* The frames of scenarios S1 and S2, and the nodes PC0, PC1, PC2.
S1Frame == EthFrame(MAC0, MAC1, Custom(1))

S2Frame == EthFrame(MAC1, MAC0, Custom(1))

\* No frame waits on any link.
Quiescent ==
    \A i \in 1..Len(queues) : queues[i].queue_0 = <<>> /\ queues[i].queue_1 = <<>>

\* The run so far is scenario S1: PC0 sent S1Frame while the MAC table was
\* empty, and nothing else was sent.
S1Run ==
    /\ Len(hist.sent) = 1
    /\ hist.sent[1].p = 0
    /\ hist.sent[1].frame = S1Frame

\* The run so far is scenario S1 followed by S2: after the switch learned
\* MAC0 from S1Frame, PC1 sent S2Frame, and nothing else was sent.
S2Run ==
    /\ Len(hist.sent) = 2
    /\ hist.sent[1].p = 0
    /\ hist.sent[1].frame = S1Frame
    /\ hist.sent[2].p = 1
    /\ hist.sent[2].frame = S2Frame
    /\ hist.sent[2].table = MapPut(EmptyMap, MAC0, 0)

\* The nodes that have received frame f.
DeliveredTo(f) == {d.to : d \in {e \in hist.dlv : e.frame = f}}

\* C12: in S1 the frame PC0 sends to the unlearned MAC1 reaches PC1 and PC2
\* (and nobody else) once the network has come to rest, and the table is
\* then MAC0 -> 0; in S2 the frame PC1 then sends to MAC0 never reaches PC2
\* (nor PC1), reaches PC0 once the network has come to rest, and the table
\* is then MAC0 -> 0, MAC1 -> 1.
C12_ScenarioS1S2 ==
    /\ S1Run =>
          /\ DeliveredTo(S1Frame) \subseteq {1, 2}
          /\ (Quiescent /\ hist.op = "tick") =>
                /\ DeliveredTo(S1Frame) = {1, 2}
                /\ Switch.mac_to_iface = MapPut(EmptyMap, MAC0, 0)
    /\ S2Run =>
          /\ DeliveredTo(S2Frame) \subseteq {0}
          /\ DeliveredTo(S1Frame) \subseteq {1, 2}
          /\ (Quiescent /\ hist.op = "tick") =>
                /\ DeliveredTo(S2Frame) = {0}
                /\ DeliveredTo(S1Frame) = {1, 2}
                /\ Switch.mac_to_iface
                      = MapPut(MapPut(EmptyMap, MAC0, 0), MAC1, 1)

\* Scenario S2 has run to its end.
C12_Witness ==
    /\ S2Run
    /\ Quiescent
    /\ hist.op = "tick"
    /\ DeliveredTo(S2Frame) = {0}

(* ============================= ArpSpec =============================== *)
(* One ServerNode with an Ethernet interface 0 (MAC0), linked to a node  *)
(* that stands for the rest of the network: between the ticks it sends   *)
(* any frame of ArpFrames through its handle (WireSend), in a tick it    *)
(* drains its link as a NoopNode does. The interface is given its IPv4   *)
(* configuration (ConfIpv4, as main.rs does), its driver is asked to     *)
(* send IPv4 packets to a link address (ArpSend), time passes (Advance)  *)
(* and the network is ticked (ArpTick).                                  *)
(* History: now is the clock; sends and injected count the packets and   *)
(* frames given so far; for the last operation, tx lists the frames the  *)
(* interface sent, rx is the tick's receive log, old is the ARP cache    *)
(* before it, pkt and addr are the arguments of send_ipv4.               *)

\* Packets handed to the driver, frames injected by the peer, and the
\* latest instant of a run.
MaxPackets == 2
MaxArpFrames == 2
MaxClock == 10

IP0 == <<192, 168, 1, 10>>
IP1 == <<192, 168, 1, 11>>
IP2 == <<192, 168, 1, 12>>

\* Link addresses of send_ipv4: a unicast neighbour, two multicast groups
\* (224.0.0.1 and one whose second octet has its high bit set) and the
\* broadcast address.
LinkAddrs == {IP1, <<224, 0, 0, 1>>, <<239, 129, 2, 3>>, <<255, 255, 255, 255>>}

ArpPacket(op, sender_mac, target_mac, sender_ip, target_ip) ==
    [op |-> op, sender_mac |-> sender_mac, target_mac |-> target_mac,
     sender_ip |-> sender_ip, target_ip |-> target_ip]

\* Frames the peer sends: ARP replies and requests from IP1 addressed to
\* the interface, to everybody or to another MAC, a request for another
\* IP, and a reply naming another MAC for IP1.
ArpFrames ==
    {EthFrame(MAC1, MAC0, ArpPayload(ArpPacket("Reply", MAC1, MAC0, IP1, IP0))),
     EthFrame(MAC2, MAC0, ArpPayload(ArpPacket("Reply", MAC2, MAC0, IP1, IP0))),
     EthFrame(MAC1, BROADCAST, ArpPayload(ArpPacket("Request", MAC1, ZERO, IP1, IP0))),
     EthFrame(MAC1, BROADCAST, ArpPayload(ArpPacket("Request", MAC1, ZERO, IP1, IP2))),
     EthFrame(MAC1, MAC2, ArpPayload(ArpPacket("Reply", MAC1, MAC0, IP1, IP0))),
     EthFrame(MAC1, MAC2, ArpPayload(ArpPacket("Request", MAC1, ZERO, IP1, IP0)))}

\* Seconds that pass in one Advance step.
ClockSteps == {9, 10}

ArpNet ==
    LET n0 == NetPush(NetPush(NewNetwork,
                  [ServerNode EXCEPT !.ifaces = MapPut(@, 0, NewIface(MAC0))]),
                  NoopNode("EthFrame"))
    IN NetLink(n0, "EthFrame", 0, 0, 1, 0)

ArpInit ==
    /\ nodes = ArpNet.nodes
    /\ queues = ArpNet.queues
    /\ listeners = ArpNet.listeners
    /\ panicked = ArpNet.panicked
    /\ obs = <<>>
    /\ hist = [op |-> "init", now |-> 0, sends |-> 0, injected |-> 0,
               tx |-> <<>>, rx |-> <<>>, old |-> EmptyMap,
               pkt |-> None, addr |-> None, dropped |-> {}]

\* The interface under test.
ArpIface == nodes[1].ifaces[0]

\* pc0_node.borrow_mut().get_iface_conf_mut(0).unwrap().ipv4 = Some(..)
ConfIpv4 ==
    /\ ~ArpIface.ipv4.some
    /\ nodes' = [nodes EXCEPT ![1].ifaces[0].ipv4 = Some(ServerIfaceIpv4(IP0, 24))]
    /\ hist' = [hist EXCEPT !.op = "conf", !.tx = <<>>, !.rx = <<>>,
                            !.old = ArpIface.arp_cache,
                            !.pkt = None, !.addr = None]
    /\ obs' = <<>>
    /\ UNCHANGED <<queues, listeners, panicked>>

\* The packets the Pending entries of an ARP cache hold.
CachePackets(cache) ==
    UNION {SeqToSet(cache[ip].packets) :
              ip \in {x \in DOMAIN cache : cache[x].tag = "Pending"}}

\* The IPv4 packets the frames of tx carry.
FramePackets(tx) ==
    {tx[k].payload.packet : k \in {j \in 1..Len(tx) : tx[j].payload.tag = "Ipv4"}}

\* The packets an operation discarded: held by the cache before it,
\* neither held after it nor emitted by it.
Discarded(old, new, tx) ==
    CachePackets(old) \ (CachePackets(new) \cup FramePackets(tx))

\* The state a send_ipv4 call with result is leaves.
ArpSendTo(is, packet, link_addr) ==
    /\ nodes' = [nodes EXCEPT ![1].ifaces[0].arp_cache = is.arp_cache]
    /\ queues' = is.qs
    /\ hist' = [hist EXCEPT !.op = "send", !.sends = @ + 1,
                            !.tx = is.tx, !.rx = <<>>,
                            !.old = ArpIface.arp_cache,
                            !.pkt = Some(packet), !.addr = Some(link_addr),
                            !.dropped = @ \cup Discarded(ArpIface.arp_cache,
                                                         is.arp_cache, is.tx)]

\* The driver's send_ipv4 is called for the next packet and link_addr.
ArpSend(link_addr) ==
    /\ hist.sends < MaxPackets
    /\ ArpIface.ipv4.some
    /\ ArpIface.link.some
    /\ LET view == LinksGet(queues, ArpIface.link.v)
           packet == Ipv4Packet(IP0, link_addr, Custom(hist.sends + 1))
       IN /\ view.err = "none"
          /\ ArpSendTo(send_ipv4([qs |-> queues, events |-> <<>>, err |-> "none",
                                  arp_cache |-> ArpIface.arp_cache,
                                  tx |-> <<>>, rx |-> <<>>],
                                 view, ArpIface.mac_addr, ArpIface.ipv4.v,
                                 packet, link_addr, hist.now, 0),
                       packet, link_addr)
    /\ obs' = <<>>
    /\ UNCHANGED <<listeners, panicked>>

WireSend(frame) ==
    /\ hist.injected < MaxArpFrames
    /\ LET view == LinksGet(queues, nodes[2].links[1])
       IN /\ view.err = "none"
          /\ queues' = LinkSend(queues, view, frame, 1)
    /\ hist' = [hist EXCEPT !.op = "wire", !.injected = @ + 1,
                            !.tx = <<>>, !.rx = <<>>,
                            !.old = ArpIface.arp_cache,
                            !.pkt = None, !.addr = None]
    /\ obs' = <<>>
    /\ UNCHANGED <<nodes, listeners, panicked>>

Advance(d) ==
    /\ hist.now + d <= MaxClock
    /\ hist' = [hist EXCEPT !.op = "advance", !.now = @ + d,
                            !.tx = <<>>, !.rx = <<>>,
                            !.old = ArpIface.arp_cache,
                            !.pkt = None, !.addr = None]
    /\ obs' = <<>>
    /\ UNCHANGED <<nodes, queues, listeners, panicked>>

\* The state a Network::tick with result r leaves.
ArpTickTo(r) ==
    /\ nodes' = r.nodes
    /\ queues' = r.qs
    /\ obs' = r.events
    /\ panicked' = r.err
    /\ hist' = [hist EXCEPT !.op = "tick",
                            !.tx = r.logs[1][0].tx, !.rx = r.logs[1][0].rx,
                            !.old = ArpIface.arp_cache,
                            !.pkt = None, !.addr = None,
                            !.dropped = @ \cup Discarded(ArpIface.arp_cache,
                                              r.nodes[1].ifaces[0].arp_cache,
                                              r.logs[1][0].tx)]
    /\ UNCHANGED listeners

ArpTick ==
    /\ hist.op # "tick"
    /\ \E inps \in InputSeqs(nodes, 1, {}) :
          ArpTickTo(NetTick(nodes, queues, listeners, inps))

ArpNext ==
    \/ ConfIpv4
    \/ \E link_addr \in LinkAddrs : ArpSend(link_addr)
    \/ \E frame \in ArpFrames : WireSend(frame)
    \/ \E d \in ClockSteps : Advance(d)
    \/ ArpTick

ArpSpec == ArpInit /\ [][ArpNext]_vars


(* ------------------------- Claims on ArpSpec -------------------------- *)

\* The last operation was send_ipv4 of packet p to the link address a.
ArpSent(p, a) ==
    /\ hist.op = "send"
    /\ hist.pkt = Some(p)
    /\ hist.addr = Some(a)

\* Before the last operation the cache held a Pending entry for a that
\* was younger than the ARP timeout.
PendingYoung(a) ==
    /\ a \in DOMAIN hist.old
    /\ hist.old[a].tag = "Pending"
    /\ hist.now - hist.old[a].time < ARP_REQUEST_TIMEOUT

\* Before the last operation a unicast address a had no entry, or a
\* Pending entry at least as old as the ARP timeout.
NeedsRequest(a) ==
    /\ ~ip_is_multicast(a)
    /\ ~ip_is_broadcast(a)
    /\ \/ a \notin DOMAIN hist.old
       \/ /\ a \in DOMAIN hist.old
          /\ hist.old[a].tag = "Pending"
          /\ hist.now - hist.old[a].time >= ARP_REQUEST_TIMEOUT

\* C14: a send_ipv4 to a link address whose cache entry is Pending and
\* younger than the ARP timeout appends the packet to the entry's queue,
\* leaves the rest of the cache as it was and emits no frame; a send that
\* finds no entry or a timed-out Pending entry emits exactly one frame,
\* the ARP Request. So the sends between a request and its reply or
\* timeout add no second request.
C14_ArpCoalescing ==
    \A a \in LinkAddrs : \A k \in 1..(MaxPackets + 1) :
        LET p == Ipv4Packet(IP0, a, Custom(k))
        IN ArpSent(p, a) =>
              /\ PendingYoung(a) =>
                    /\ hist.tx = <<>>
                    /\ ArpIface.arp_cache =
                          [hist.old EXCEPT ![a].packets = Append(@, p)]
              /\ NeedsRequest(a) =>
                    hist.tx = <<ArpRequest(MAC0, IP0, a)>>

\* A second packet for IP1 is sent nine seconds after the request and
\* joins the first one in the queue.
C14_Witness ==
    /\ hist.op = "send"
    /\ hist.addr = Some(IP1)
    /\ PendingYoung(IP1)
    /\ hist.now - hist.old[IP1].time = 9
    /\ hist.tx = <<>>
    /\ Len(ArpIface.arp_cache[IP1].packets) = 2


\* The receive r of the last tick reached recv_arp: the frame passed the
\* destination filter, carries ARP and the interface has an IPv4 address.
Learns(r) ==
    /\ is_multicast(r.frame.dst) \/ r.frame.dst = MAC0
    /\ r.frame.payload.tag = "Arp"
    /\ ArpIface.ipv4.some

\* The frames the interface sent while it handled the receive r, after
\* the ARP reply if r is a request for the local IP.
LearnEmits(r) ==
    LET arp == r.frame.payload.arp
        reply == IF arp.op = "Request" /\ arp.target_ip = IP0 THEN 1 ELSE 0
    IN SubSeq(hist.tx, r.sent0 + reply + 1, r.sent1)

\* C15: when a received ARP packet makes the interface learn (ip, mac)
\* and the cache holds a Pending entry for ip, the interface emits one
\* frame {src: local MAC, dst: mac, payload: the packet} for each queued
\* packet, in queue order, and nothing else; when the cache holds no
\* entry or a Known entry for ip, it emits nothing. In both cases the
\* cache afterwards is the old one with Known(mac) for ip.
C15_ArpFlushOnLearn ==
    hist.op = "tick" =>
        \A i \in 1..Len(hist.rx) :
            LET r == hist.rx[i]
                ip == r.frame.payload.arp.sender_ip
                mac == r.frame.payload.arp.sender_mac
            IN Learns(r) =>
                  /\ r.new = MapPut(r.old, ip, Known(mac))
                  /\ IF ip \in DOMAIN r.old /\ r.old[ip].tag = "Pending"
                     THEN LearnEmits(r) =
                             [k \in 1..Len(r.old[ip].packets) |->
                                 EthFrame(MAC0, mac, Ipv4Payload(r.old[ip].packets[k]))]
                     ELSE LearnEmits(r) = <<>>

\* A reply for IP1 arrives while two packets wait for it: both leave,
\* the first queued first.
C15_Witness ==
    /\ hist.op = "tick"
    /\ \E i \in 1..Len(hist.rx) :
          LET r == hist.rx[i]
          IN /\ Learns(r)
             /\ IP1 \in DOMAIN r.old
             /\ r.old[IP1].tag = "Pending"
             /\ Len(r.old[IP1].packets) = 2
             /\ r.sent1 = r.sent0 + 2
             /\ r.new[IP1] = Known(MAC1)


\* Every Pending entry of the cache holds a queued packet.
PendingHoldPackets(cache) ==
    \A ip \in DOMAIN cache :
        cache[ip].tag = "Pending" => Len(cache[ip].packets) >= 1

\* C16: in every reachable state, and before and after every frame a
\* tick handles, each Pending entry of the interface's ARP cache holds at
\* least one queued IPv4 packet.
C16_PendingNeverEmpty ==
    /\ PendingHoldPackets(ArpIface.arp_cache)
    /\ \A i \in 1..Len(hist.rx) :
          /\ PendingHoldPackets(hist.rx[i].old)
          /\ PendingHoldPackets(hist.rx[i].new)

\* A timed-out request is sent again: the Pending entry is created anew
\* with the packet of this send.
C16_Witness ==
    /\ hist.op = "send"
    /\ hist.addr = Some(IP1)
    /\ NeedsRequest(IP1)
    /\ IP1 \in DOMAIN hist.old
    /\ ArpIface.arp_cache[IP1] = Pending(hist.now, <<hist.pkt.v>>)


\* 01:00:5E:(ip[1] & 0x7F):ip[2]:ip[3] for the address ip[0].ip[1].ip[2].ip[3]
MulticastMac(a) == <<1, 0, 94, a[2] % 128, a[3], a[4]>>

\* C17: a send_ipv4 whose link address is multicast (224.0.0.0/4) emits
\* at once exactly one frame, the packet addressed to the MAC
\* 01:00:5E:(ip[1] & 0x7F):ip[2]:ip[3]; one whose link address is
\* 255.255.255.255 emits at once exactly one frame, the packet addressed
\* to the broadcast MAC. Neither sends an ARP request nor changes the ARP
\* cache. 224.0.0.1 maps to 01:00:5E:00:00:01.
C17_MulticastFastPath ==
    /\ MulticastMac(<<224, 0, 0, 1>>) = <<1, 0, 94, 0, 0, 1>>
    /\ \A a \in LinkAddrs : \A k \in 1..(MaxPackets + 1) :
          LET p == Ipv4Packet(IP0, a, Custom(k))
          IN ArpSent(p, a) =>
                /\ (a[1] >= 224 /\ a[1] <= 239) =>
                      /\ hist.tx = <<EthFrame(MAC0, MulticastMac(a), Ipv4Payload(p))>>
                      /\ ArpIface.arp_cache = hist.old
                /\ a = <<255, 255, 255, 255>> =>
                      /\ hist.tx = <<EthFrame(MAC0, BROADCAST, Ipv4Payload(p))>>
                      /\ ArpIface.arp_cache = hist.old

\* A packet for 239.129.2.3 leaves at once for 01:00:5E:01:02:03 while a
\* request for IP1 is pending.
C17_Witness ==
    /\ hist.op = "send"
    /\ hist.addr = Some(<<239, 129, 2, 3>>)
    /\ Len(hist.tx) = 1
    /\ hist.tx[1].dst = <<1, 0, 94, 1, 2, 3>>
    /\ IP1 \in DOMAIN hist.old
    /\ hist.old[IP1].tag = "Pending"


\* C18: a frame the interface receives whose destination MAC is neither
\* multicast nor the interface's own MAC makes the interface send no
\* frame and leaves its ARP cache as it was, whatever the frame carries.
C18_DestinationFilter ==
    hist.op = "tick" =>
        \A i \in 1..Len(hist.rx) :
            LET r == hist.rx[i]
            IN (~is_multicast(r.frame.dst) /\ r.frame.dst # MAC0) =>
                  /\ r.sent1 = r.sent0
                  /\ r.new = r.old

\* The configured interface, waiting for the MAC of IP1, receives an ARP
\* reply from IP1 addressed to another MAC.
C18_Witness ==
    /\ hist.op = "tick"
    /\ ArpIface.ipv4.some
    /\ \E i \in 1..Len(hist.rx) :
          LET r == hist.rx[i]
          IN /\ r.frame.dst = MAC2
             /\ r.frame.payload.tag = "Arp"
             /\ r.frame.payload.arp.op = "Reply"
             /\ IP1 \in DOMAIN r.old
             /\ r.old[IP1].tag = "Pending"
             /\ r.new = r.old


(* ============================ RouteSpec ============================== *)
(* The routing table of one ServerNode: routes are added, the default    *)
(* route is set and addresses are looked up, in any order. The build is  *)
(* fixed at the start: "debug" checks arithmetic overflow, "release"     *)
(* does not. History: the last operation, the build, and for a fetch the *)
(* address looked up and the value returned.                             *)

\* Routes a table holds at most.
MaxRoutes == 2

\* Prefixes given to add_route: 0.0.0.0/0, 192.168.0.0/16 and
\* 192.168.1.0/24.
RoutePrefixes ==
    {IpPrefixZERO} \cup {take_prefix(IP1, prefix_len) : prefix_len \in {16, 24}}

\* Addresses looked up: one inside the /24, one inside the /16 only, one
\* outside both.
RouteIps == {IP1, <<192, 168, 2, 1>>, <<10, 0, 0, 1>>}

RouteKinds == {Iface(0), Iface(1), NextHop(IP1)}

Builds == {"debug", "release"}

RouteInit ==
    /\ nodes = <<ServerNode>>
    /\ queues = NewNetwork.queues
    /\ listeners = NewNetwork.listeners
    /\ panicked = NewNetwork.panicked
    /\ obs = <<>>
    /\ \E build \in Builds :
          hist = [op |-> "init", build |-> build, ip |-> None, res |-> None]

\* The table under test.
RouteTable == nodes[1].ipv4_routes

AddRoute(prefix, kind) ==
    /\ panicked = "none"
    /\ Len(RouteTable.routes) < MaxRoutes
    /\ nodes' = [nodes EXCEPT ![1].ipv4_routes = add_route(@, prefix, kind)]
    /\ hist' = [hist EXCEPT !.op = "add_route", !.ip = None, !.res = None]
    /\ UNCHANGED <<queues, listeners, panicked, obs>>

SetDefaultRoute(kind) ==
    /\ panicked = "none"
    /\ nodes' = [nodes EXCEPT ![1].ipv4_routes = set_default_route(@, kind)]
    /\ hist' = [hist EXCEPT !.op = "set_default_route", !.ip = None, !.res = None]
    /\ UNCHANGED <<queues, listeners, panicked, obs>>

\* The state a fetch of ip with result r leaves.
FetchTo(ip, r) ==
    /\ panicked' = IF r.err = "panic" THEN "shift" ELSE panicked
    /\ hist' = [hist EXCEPT !.op = "fetch", !.ip = Some(ip), !.res = r.v]
    /\ UNCHANGED <<nodes, queues, listeners, obs>>

Fetch(ip) ==
    /\ panicked = "none"
    /\ FetchTo(ip, fetch(RouteTable, ip, hist.build))

RouteNext ==
    \/ \E prefix \in RoutePrefixes, kind \in RouteKinds : AddRoute(prefix, kind)
    \/ \E kind \in RouteKinds : SetDefaultRoute(kind)
    \/ \E ip \in RouteIps : Fetch(ip)

RouteSpec == RouteInit /\ [][RouteNext]_vars


(* ------------------------ Claims on RouteSpec ------------------------- *)

\* The positions, in insertion order, of the routes whose prefix matches
\* ip.
MatchingRoutes(rt, ip) ==
    {k \in 1..Len(rt.routes) : matches(rt.routes[k].prefix, ip)}

\* The earliest of the positions ks.
Earliest(ks) == CHOOSE k \in ks : \A j \in ks : k <= j

\* The table holds no zero-length prefix.
NoZeroPrefix(rt) ==
    \A k \in 1..Len(rt.routes) : rt.routes[k].prefix.prefix_len > 0

\* C19: fetch(ip) selects the earliest added route whose prefix matches
\* ip, whatever the later routes are; if no route matches it uses the
\* default route; with neither it returns none. Stated for tables without
\* a zero-length prefix, for a selected route that names its interface:
\* the interface returned is the one of the earliest matching route, else
\* the one of the default route.
C19_FirstMatchThenDefault ==
    (hist.op = "fetch" /\ panicked = "none" /\ NoZeroPrefix(RouteTable)) =>
        LET rt == RouteTable
            ks == MatchingRoutes(rt, hist.ip.v)
        IN IF ks # {}
           THEN rt.routes[Earliest(ks)].kind.tag = "Iface" =>
                   /\ hist.res.some
                   /\ hist.res.v[1] = rt.routes[Earliest(ks)].kind.iface
           ELSE IF rt.default.some
                THEN rt.default.v.tag = "Iface" =>
                        /\ hist.res.some
                        /\ hist.res.v[1] = rt.default.v.iface
                ELSE hist.res = None

\* C20: fetch on a table without routes returns none for every address
\* when no default route is set, and (iface, ip) for every address ip
\* once set_default_route has set a direct default route via iface.
C20_EmptyAndDefault ==
    (hist.op = "fetch" /\ RouteTable.routes = <<>>) =>
        IF RouteTable.default.some
        THEN RouteTable.default.v.tag = "Iface" =>
                hist.res = Some(<<RouteTable.default.v.iface, hist.ip.v>>)
        ELSE hist.res = None


(* ============================== S3Spec =============================== *)
(* The network of main.rs: PC0, PC1 and PC2 are ServerNodes with an      *)
(* Ethernet interface 0 (MAC0, MAC1, MAC2), registered before the switch *)
(* and linked to its interfaces 0, 1 and 2; each has its /24 address and *)
(* PC0 a default route via interface 0. A PC is handed an IPv4 packet    *)
(* through ServerNode::send_ipv4 (PcSendIpv4), an interface driver is    *)
(* asked to send one (DriverSend), and the network is ticked once a      *)
(* second (S3Tick).                                                      *)
(* History: now is the clock; calls and sends count the packets given    *)
(* to the nodes and to the drivers; op and prev are the last two         *)
(* operations; asked is the instant of the first ServerNode::send_ipv4   *)
(* of PC0 for IP1; old is PC0's ARP cache before the last operation and  *)
(* pc0 what PC0's interface sent and received in the last tick.          *)

\* Packets handed to ServerNode::send_ipv4, and ticks of a run.
MaxCalls == 1
MaxTicks == 4

S3Macs == <<MAC0, MAC1, MAC2>>

S3Ips == <<IP0, IP1, IP2>>

\* A PC of main.rs: ServerNode::with_iface(0, ServerEthIface::new(mac)).
S3Pc(mac) == [ServerNode EXCEPT !.ifaces = MapPut(@, 0, NewIface(mac))]

S3Net ==
    LET n0 == NetPush(NetPush(NetPush(NetPush(NewNetwork,
                  S3Pc(MAC0)), S3Pc(MAC1)), S3Pc(MAC2)), EthSwitch)
        n1 == NetLink(n0, "EthFrame", 0, 0, SwitchNode, 0)
        n2 == NetLink(n1, "EthFrame", 1, 0, SwitchNode, 1)
        n3 == NetLink(n2, "EthFrame", 2, 0, SwitchNode, 2)
        n4 == NetSubscribe(n3, "EthFrame")
    IN [n4 EXCEPT
          !.nodes[1].ifaces[0].ipv4 = Some(ServerIfaceIpv4(IP0, 24)),
          !.nodes[1].ipv4_routes = set_default_route(@, Iface(0)),
          !.nodes[2].ifaces[0].ipv4 = Some(ServerIfaceIpv4(IP1, 24)),
          !.nodes[3].ifaces[0].ipv4 = Some(ServerIfaceIpv4(IP2, 24))]

S3Init ==
    /\ nodes = S3Net.nodes
    /\ queues = S3Net.queues
    /\ listeners = S3Net.listeners
    /\ panicked = S3Net.panicked
    /\ obs = <<>>
    /\ hist = [op |-> "init", prev |-> "init", now |-> 0, calls |-> 0,
               sends |-> 0, asked |-> None, old |-> EmptyMap,
               pc0 |-> NoIfaceLog]

\* PC0's interface.
Pc0Iface == nodes[1].ifaces[0]

\* ServerNode::send_ipv4: the node as the call leaves it.
node_send_ipv4(node, packet) == node

\* pc_node.borrow_mut().send_ipv4(packet) with a packet for PC dst.
PcSendIpv4(pc, dst) ==
    /\ panicked = "none"
    /\ pc # dst
    /\ hist.calls < MaxCalls
    /\ nodes' = [nodes EXCEPT ![pc + 1] =
                    node_send_ipv4(@, Ipv4Packet(S3Ips[pc + 1], S3Ips[dst + 1],
                                                 Custom(hist.calls + 1)))]
    /\ hist' = [hist EXCEPT
                   !.op = IF pc = 0 /\ dst = 1 THEN "call01" ELSE "call",
                   !.prev = hist.op, !.calls = @ + 1,
                   !.asked = IF pc = 0 /\ dst = 1 /\ ~@.some THEN Some(hist.now) ELSE @,
                   !.old = Pc0Iface.arp_cache, !.pc0 = NoIfaceLog]
    /\ obs' = <<>>
    /\ UNCHANGED <<queues, listeners, panicked>>

\* The state a driver's send_ipv4 with result is leaves on PC pc.
DriverSendTo(pc, is) ==
    /\ nodes' = [nodes EXCEPT ![pc + 1].ifaces[0].arp_cache = is.arp_cache]
    /\ queues' = is.qs
    /\ hist' = [hist EXCEPT !.op = "send", !.prev = hist.op, !.sends = @ + 1,
                            !.old = Pc0Iface.arp_cache, !.pc0 = NoIfaceLog]

\* The driver of PC pc is asked to send a packet to the link address of
\* PC dst.
DriverSend(pc, dst) ==
    /\ panicked = "none"
    /\ pc # dst
    /\ hist.sends < MaxPackets
    /\ LET iface == nodes[pc + 1].ifaces[0]
           view == LinksGet(queues, iface.link.v)
       IN /\ view.err = "none"
          /\ DriverSendTo(pc,
                send_ipv4([qs |-> queues, events |-> <<>>, err |-> "none",
                           arp_cache |-> iface.arp_cache,
                           tx |-> <<>>, rx |-> <<>>],
                          view, iface.mac_addr, iface.ipv4.v,
                          Ipv4Packet(S3Ips[pc + 1], S3Ips[dst + 1],
                                     Custom(hist.sends + 1)),
                          S3Ips[dst + 1], hist.now, pc))
    /\ obs' = <<>>
    /\ UNCHANGED <<listeners, panicked>>

\* The state a Network::tick with result r leaves; a second passes.
S3TickTo(r) ==
    /\ nodes' = r.nodes
    /\ queues' = r.qs
    /\ obs' = r.events
    /\ panicked' = r.err
    /\ hist' = [hist EXCEPT !.op = "tick", !.prev = hist.op, !.now = @ + 1,
                            !.old = Pc0Iface.arp_cache, !.pc0 = r.logs[1][0]]
    /\ UNCHANGED listeners

S3Tick ==
    /\ panicked = "none"
    /\ hist.now < MaxTicks
    /\ \E inps \in InputSeqs(nodes, 1, {}) :
          S3TickTo(NetTick(nodes, queues, listeners, inps))

S3Next ==
    \/ \E pc \in 0..2, dst \in 0..2 : PcSendIpv4(pc, dst)
    \/ \E pc \in 0..2, dst \in 0..2 : DriverSend(pc, dst)
    \/ S3Tick

S3Spec == S3Init /\ [][S3Next]_vars


(* -------------------------- Claims on S3Spec -------------------------- *)

\* Only PC0 was handed a packet, for IP1, through ServerNode::send_ipv4,
\* and no driver was called directly.
OnlyS3 == hist.asked.some /\ hist.calls = 1 /\ hist.sends = 0

\* C13: in the network of main.rs, after PC0.send_ipv4 of one packet for
\* 192.168.1.11, in the next tick PC0 sends an ARP Request broadcast for
\* 192.168.1.11 and no IPv4 frame; in the third tick after the call, in
\* which the reply of PC1 reaches it, PC0 sends the packet to MAC1; from
\* then on PC0's ARP cache holds Known(MAC1) for 192.168.1.11.
C13_ScenarioS3 ==
    /\ (OnlyS3 /\ hist.op = "tick" /\ hist.now = hist.asked.v + 1) =>
          /\ \E k \in 1..Len(hist.pc0.tx) :
                hist.pc0.tx[k] = ArpRequest(MAC0, IP0, IP1)
          /\ \A k \in 1..Len(hist.pc0.tx) : hist.pc0.tx[k].payload.tag # "Ipv4"
    /\ (OnlyS3 /\ hist.op = "tick" /\ hist.now = hist.asked.v + 3) =>
          /\ \E k \in 1..Len(hist.pc0.rx) :
                /\ hist.pc0.rx[k].frame.src = MAC1
                /\ hist.pc0.rx[k].frame.dst = MAC0
                /\ hist.pc0.rx[k].frame.payload.tag = "Arp"
                /\ hist.pc0.rx[k].frame.payload.arp.op = "Reply"
          /\ hist.pc0.tx =
                <<EthFrame(MAC0, MAC1,
                           Ipv4Payload(Ipv4Packet(IP0, IP1, Custom(1))))>>
    /\ (OnlyS3 /\ hist.now >= hist.asked.v + 3) =>
          /\ IP1 \in DOMAIN Pc0Iface.arp_cache
          /\ Pc0Iface.arp_cache[IP1] = Known(MAC1)


(* --------------------- More claims on RouteSpec ---------------------- *)

\* C21: for the route fetch(ip) selects, the earliest one matching ip,
\* the link address returned is ip itself when the route is direct
\* (Iface) and the route's next hop when it is indirect (NextHop), and
\* the interface returned is the one the selected direct route names.
\* Stated for tables without a zero-length prefix.
C21_LinkAddress ==
    (hist.op = "fetch" /\ panicked = "none" /\ NoZeroPrefix(RouteTable)) =>
        LET rt == RouteTable
            ks == MatchingRoutes(rt, hist.ip.v)
        IN ks # {} =>
              LET kind == rt.routes[Earliest(ks)].kind
              IN IF kind.tag = "Iface"
                 THEN hist.res = Some(<<kind.iface, hist.ip.v>>)
                 ELSE hist.res.some => hist.res.v[2] = kind.next_hop


\* C22: the zero-length prefix 0.0.0.0/0 matches every IPv4 address: a
\* fetch on a table whose first route is a direct route for 0.0.0.0/0
\* completes and selects that route, whatever the address looked up.
C22_ZeroPrefixMatchesAll ==
    (/\ hist.op = "fetch"
     /\ Len(RouteTable.routes) >= 1
     /\ RouteTable.routes[1].prefix = IpPrefixZERO
     /\ RouteTable.routes[1].kind.tag = "Iface") =>
        /\ panicked = "none"
        /\ matches(IpPrefixZERO, hist.ip.v)
        /\ hist.res.some
        /\ hist.res.v[1] = RouteTable.routes[1].kind.iface


(* ============================= NodeSpec ============================== *)
(* One ServerNode and a NoopNode of EthFrame links. Interfaces 0 and 1   *)
(* are registered on the server (AddInterface), linked to the other node *)
(* (NsLink) and given an IPv4 configuration (NsConf); routes are added   *)
(* and the default route is set (NsAddRoute, NsSetDefault); the server   *)
(* is handed IPv4 packets through ServerNode::send_ipv4 (NsSend) and the *)
(* network is ticked (NsTick).                                           *)
(* History: the last operation, its interface argument, the server and   *)
(* the link queues before it, the packets handed to the server so far,   *)
(* those handed since the tick before the last operation, and what each  *)
(* interface sent and received in the last tick.                         *)

add_interface_overwrite(node, iface, handler) ==
    [node |-> [node EXCEPT !.ifaces = MapPut(@, iface, handler)], err |-> "none"]

\* ServerNode::add_interface: [node, err], err "iface" for the panic
\* "this interface is already defined".
add_interface(node, iface, handler) ==
    IF iface \in DOMAIN node.ifaces
    THEN [node |-> node, err |-> "iface"]
    ELSE [node |-> [node EXCEPT !.ifaces = MapPut(@, iface, handler)],
          err |-> "none"]

\* Destinations of the packets handed to the server: inside and outside
\* the routed /24.
NsDsts == {IP1, <<10, 0, 0, 1>>}

NsNet == NetPush(NetPush(NewNetwork, ServerNode), NoopNode("EthFrame"))

NsInit ==
    /\ nodes = NsNet.nodes
    /\ queues = NsNet.queues
    /\ listeners = NsNet.listeners
    /\ panicked = NsNet.panicked
    /\ obs = <<>>
    /\ hist = [op |-> "init", iface |-> 0, node |-> ServerNode, qs |-> <<>>,
               calls |-> <<>>, due |-> <<>>, logs |-> EmptyMap]

\* The server under test.
NsServer == nodes[1]

\* History of an operation named op with interface argument iface.
NsHist(op, iface) ==
    [hist EXCEPT !.op = op, !.iface = iface, !.node = NsServer, !.qs = queues,
                 !.due = IF hist.op = "tick" THEN <<>> ELSE @,
                 !.logs = EmptyMap]

\* The state an add_interface call with result r leaves.
AddInterfaceTo(iface, r) ==
    /\ nodes' = [nodes EXCEPT ![1] = r.node]
    /\ panicked' = r.err
    /\ hist' = NsHist("add_interface", iface)

AddInterface(iface, mac) ==
    /\ panicked = "none"
    /\ AddInterfaceTo(iface, add_interface(NsServer, iface, NewIface(mac)))
    /\ obs' = <<>>
    /\ UNCHANGED <<queues, listeners>>

\* net.link::<EthFrame>(server, iface, peer, _) for a registered
\* interface that has no link yet.
NsLink(iface) ==
    /\ panicked = "none"
    /\ iface \in DOMAIN NsServer.ifaces
    /\ ~NsServer.ifaces[iface].link.some
    /\ LET r == NetLink([nodes |-> nodes, queues |-> queues,
                         listeners |-> listeners, panicked |-> panicked],
                        "EthFrame", 0, iface, 1, iface)
       IN /\ nodes' = r.nodes
          /\ queues' = r.queues
          /\ panicked' = r.panicked
    /\ hist' = NsHist("link", iface)
    /\ obs' = <<>>
    /\ UNCHANGED listeners

\* The interface is given the address 192.168.1.10 + iface, /24.
NsConf(iface) ==
    /\ panicked = "none"
    /\ iface \in DOMAIN NsServer.ifaces
    /\ ~NsServer.ifaces[iface].ipv4.some
    /\ nodes' = [nodes EXCEPT ![1].ifaces[iface].ipv4 =
                    Some(ServerIfaceIpv4(S3Ips[iface + 1], 24))]
    /\ hist' = NsHist("conf", iface)
    /\ obs' = <<>>
    /\ UNCHANGED <<queues, listeners, panicked>>

\* server.ipv4_routes().add_route(192.168.1.0/24, Iface(iface))
NsAddRoute(iface) ==
    /\ panicked = "none"
    /\ Len(NsServer.ipv4_routes.routes) < MaxRoutes
    /\ nodes' = [nodes EXCEPT ![1].ipv4_routes =
                    add_route(@, take_prefix(IP1, 24), Iface(iface))]
    /\ hist' = NsHist("add_route", iface)
    /\ obs' = <<>>
    /\ UNCHANGED <<queues, listeners, panicked>>

\* server.ipv4_routes().set_default_route(Iface(iface))
NsSetDefault(iface) ==
    /\ panicked = "none"
    /\ ~NsServer.ipv4_routes.default.some
    /\ nodes' = [nodes EXCEPT ![1].ipv4_routes = set_default_route(@, Iface(iface))]
    /\ hist' = NsHist("set_default_route", iface)
    /\ obs' = <<>>
    /\ UNCHANGED <<queues, listeners, panicked>>

\* server.send_ipv4(packet) with a packet for dst.
NsSend(dst) ==
    /\ panicked = "none"
    /\ Len(hist.calls) < MaxCalls
    /\ LET packet == Ipv4Packet(IP0, dst, Custom(Len(hist.calls) + 1))
       IN /\ nodes' = [nodes EXCEPT ![1] = node_send_ipv4(@, packet)]
          /\ hist' = [NsHist("send_ipv4", 0) EXCEPT !.calls = Append(@, packet),
                                                    !.due = Append(@, packet)]
    /\ obs' = <<>>
    /\ UNCHANGED <<queues, listeners, panicked>>

\* The state a Network::tick with result r leaves.
NsTickTo(r) ==
    /\ nodes' = r.nodes
    /\ queues' = r.qs
    /\ obs' = r.events
    /\ panicked' = r.err
    /\ hist' = [NsHist("tick", 0) EXCEPT !.logs = r.logs[1]]
    /\ UNCHANGED listeners

NsTick ==
    /\ panicked = "none"
    /\ hist.op # "tick"
    /\ \E inps \in InputSeqs(nodes, 1, {}) :
          NsTickTo(NetTick(nodes, queues, listeners, inps))

NsNext ==
    \/ \E iface \in IfaceIds, mac \in {MAC0, MAC2} : AddInterface(iface, mac)
    \/ \E iface \in IfaceIds : NsLink(iface)
    \/ \E iface \in IfaceIds : NsConf(iface)
    \/ \E iface \in IfaceIds : NsAddRoute(iface)
    \/ \E iface \in IfaceIds : NsSetDefault(iface)
    \/ \E dst \in NsDsts : NsSend(dst)
    \/ NsTick

NodeSpec == NsInit /\ [][NsNext]_vars


(* ------------------------- Claims on NodeSpec ------------------------- *)

\* C23: registering an interface under an index the server already has
\* panics and leaves the server, the existing interface included, as it
\* was; registering under an unused index does not panic, keeps the
\* other interfaces and adds an interface without link and without IPv4
\* configuration under that index.
C23_AddInterface ==
    hist.op = "add_interface" =>
        IF hist.iface \in DOMAIN hist.node.ifaces
        THEN /\ panicked # "none"
             /\ NsServer = hist.node
        ELSE /\ panicked = "none"
             /\ DOMAIN NsServer.ifaces = DOMAIN hist.node.ifaces \cup {hist.iface}
             /\ \A i \in DOMAIN hist.node.ifaces :
                   NsServer.ifaces[i] = hist.node.ifaces[i]
             /\ ~NsServer.ifaces[hist.iface].link.some
             /\ ~NsServer.ifaces[hist.iface].ipv4.some
             /\ NsServer.ipv4_routes = hist.node.ipv4_routes

\* Interface 0 of MAC0, linked and configured, is registered again with
\* MAC2: the call panics and the interface is as before.
C23_Witness ==
    /\ hist.op = "add_interface"
    /\ hist.iface = 0
    /\ panicked = "iface"
    /\ 0 \in DOMAIN NsServer.ifaces
    /\ NsServer.ifaces[0].mac_addr = MAC0
    /\ NsServer.ifaces[0].link.some
    /\ NsServer.ifaces[0].ipv4.some


\* The server's pending IPv4 egress queue. The ServerNode of the source
\* has the fields ifaces and ipv4_routes and no such queue.
PendingEgress(node) == IF "egress" \in DOMAIN node THEN node.egress ELSE <<>>

\* C24: ServerNode::send_ipv4(packet) appends the packet to the server's
\* pending egress queue and does nothing else: the interfaces (links, ARP
\* caches, configurations), the routes and the link queues are as before
\* and no frame is emitted.
C24_SendOnlyEnqueues ==
    hist.op = "send_ipv4" =>
        /\ PendingEgress(NsServer) =
              Append(PendingEgress(hist.node), hist.calls[Len(hist.calls)])
        /\ NsServer.ifaces = hist.node.ifaces
        /\ NsServer.ipv4_routes = hist.node.ipv4_routes
        /\ queues = hist.qs
        /\ obs = <<>>

\* The packet is held, after the tick, by a Pending entry of the ARP
\* cache of the interface.
HeldByArp(iface, packet) ==
    \E a \in DOMAIN NsServer.ifaces[iface].arp_cache :
        LET entry == NsServer.ifaces[iface].arp_cache[a]
        IN /\ entry.tag = "Pending"
           /\ \E k \in 1..Len(entry.packets) : entry.packets[k] = packet

\* C25: after a tick of the server its egress queue is empty, and each
\* packet handed to the server since the tick before was either passed
\* to send_ipv4 of the interface that ipv4_routes.fetch(packet.dst)
\* names, when there is such a route and the interface is linked and has
\* an IPv4 configuration (the driver, its cache being empty, then sends
\* an ARP request and holds the packet), or dropped: no frame, no ARP
\* entry.
C25_TickDrainsEgress ==
    hist.op = "tick" =>
        /\ PendingEgress(NsServer) = <<>>
        /\ \A k \in 1..Len(hist.due) :
              LET packet == hist.due[k]
                  r == fetch(hist.node.ipv4_routes, packet.dst, "release").v
                  routed == /\ r.some
                            /\ r.v[1] \in DOMAIN hist.node.ifaces
                            /\ hist.node.ifaces[r.v[1]].link.some
                            /\ hist.node.ifaces[r.v[1]].ipv4.some
              IN IF routed
                 THEN /\ hist.logs[r.v[1]].tx # <<>>
                      /\ HeldByArp(r.v[1], packet)
                 ELSE /\ \A i \in DOMAIN hist.logs : hist.logs[i].tx = <<>>
                      /\ NsServer.ifaces = hist.node.ifaces


(* ----------------------- More claims on ArpSpec ----------------------- *)

\* C26: a send_ipv4 to a unicast link address that has no entry in the
\* ARP cache emits exactly one frame, the broadcast ARP Request
\* {op: Request, sender_mac: local MAC, target_mac: ZERO, sender_ip: the
\* configured IP, target_ip: link_addr}, so the IPv4 packet is not
\* emitted, and leaves the cache as it was plus a Pending entry for
\* link_addr stamped now whose queue holds exactly the packet.
C26_RequestOnVacant ==
    (/\ hist.op = "send"
     /\ ~ip_is_multicast(hist.addr.v)
     /\ ~ip_is_broadcast(hist.addr.v)
     /\ hist.addr.v \notin DOMAIN hist.old) =>
        /\ hist.tx =
              <<[src |-> ArpIface.mac_addr, dst |-> <<255, 255, 255, 255, 255, 255>>,
                 payload |-> [tag |-> "Arp",
                              arp |-> [op |-> "Request",
                                       sender_mac |-> ArpIface.mac_addr,
                                       target_mac |-> <<0, 0, 0, 0, 0, 0>>,
                                       sender_ip |-> ArpIface.ipv4.v.ip,
                                       target_ip |-> hist.addr.v]]]>>
        /\ DOMAIN ArpIface.arp_cache = DOMAIN hist.old \cup {hist.addr.v}
        /\ \A ip \in DOMAIN hist.old : ArpIface.arp_cache[ip] = hist.old[ip]
        /\ ArpIface.arp_cache[hist.addr.v] =
              [tag |-> "Pending", time |-> hist.now, packets |-> <<hist.pkt.v>>]

\* Nine seconds after the start, a first packet for IP1 is handed to the
\* interface, whose cache is empty; the request leaves.
C26_Witness ==
    /\ hist.op = "send"
    /\ hist.addr = Some(IP1)
    /\ hist.now = 9
    /\ IP1 \notin DOMAIN hist.old
    /\ Len(hist.tx) = 1
    /\ hist.tx[1].payload.tag = "Arp"
    /\ ArpIface.arp_cache[IP1].tag = "Pending"


\* Before the last operation the cache held for a a Pending entry that
\* had reached the ARP timeout.
PendingStale(a) ==
    /\ a \in DOMAIN hist.old
    /\ hist.old[a].tag = "Pending"
    /\ hist.now - hist.old[a].time >= ARP_REQUEST_TIMEOUT

\* C27: a send_ipv4 to a link address whose Pending entry has reached
\* the ARP timeout emits one frame, a new ARP Request for that address,
\* and replaces the entry with a Pending entry stamped now whose queue
\* holds only the new packet; the packets the old entry queued are
\* discarded. A discarded packet is never held by the cache again and no
\* later operation, a tick that handles the reply included, emits it.
C27_ArpRetransmit ==
    /\ (hist.op = "send" /\ PendingStale(hist.addr.v)) =>
          LET a == hist.addr.v
          IN /\ Len(hist.tx) = 1
             /\ hist.tx[1].dst = BROADCAST
             /\ hist.tx[1].payload.tag = "Arp"
             /\ hist.tx[1].payload.arp.op = "Request"
             /\ hist.tx[1].payload.arp.target_ip = a
             /\ ArpIface.arp_cache =
                   MapPut(hist.old, a, Pending(hist.now, <<hist.pkt.v>>))
             /\ SeqToSet(hist.old[a].packets) \subseteq hist.dropped
    /\ \A q \in hist.dropped :
          /\ q \notin CachePackets(ArpIface.arp_cache)
          /\ \A k \in 1..Len(hist.tx) :
                hist.tx[k].payload.tag = "Ipv4" => hist.tx[k].payload.packet # q

\* The request for IP1 was sent again with the second packet and the
\* first packet discarded; now the reply arrives and only the second
\* packet leaves.
C27_Witness ==
    /\ hist.op = "tick"
    /\ hist.dropped = {Ipv4Packet(IP0, IP1, Custom(1))}
    /\ \E i \in 1..Len(hist.rx) :
          LET r == hist.rx[i]
          IN /\ Learns(r)
             /\ IP1 \in DOMAIN r.old
             /\ r.old[IP1].tag = "Pending"
             /\ r.new[IP1].tag = "Known"
             /\ r.sent1 = r.sent0 + 1


\* Every address with a Known entry in the cache old has a Known entry
\* in the cache new.
KnownStay(old, new) ==
    \A ip \in DOMAIN old :
        old[ip].tag = "Known" => (ip \in DOMAIN new /\ new[ip].tag = "Known")

\* C28: an address whose cache entry is Known keeps a Known entry
\* through every operation (a send_ipv4, a frame put on the link, a
\* configuration, the passing of time, a tick) and through every frame a
\* tick handles, so it is never Pending or Vacant again; and a send_ipv4
\* to such an address emits exactly one frame, the packet addressed to
\* the cached MAC, and leaves the cache as it was, so no ARP Request is
\* sent.
C28_KnownPermanent ==
    /\ KnownStay(hist.old, ArpIface.arp_cache)
    /\ \A i \in 1..Len(hist.rx) : KnownStay(hist.rx[i].old, hist.rx[i].new)
    /\ (/\ hist.op = "send"
        /\ hist.addr.v \in DOMAIN hist.old
        /\ hist.old[hist.addr.v].tag = "Known") =>
          /\ hist.tx = <<EthFrame(ArpIface.mac_addr, hist.old[hist.addr.v].mac,
                                  Ipv4Payload(hist.pkt.v))>>
          /\ ArpIface.arp_cache = hist.old

\* Two ARP frames were put on the link and the cache knows IP1 at the
\* MAC the reply from MAC2 named; a packet for IP1 leaves at once for
\* that MAC.
C28_Witness ==
    /\ hist.op = "send"
    /\ hist.addr = Some(IP1)
    /\ hist.injected = 2
    /\ IP1 \in DOMAIN hist.old
    /\ hist.old[IP1] = Known(MAC2)
    /\ Len(hist.tx) = 1
    /\ hist.tx[1].dst = MAC2
    /\ hist.tx[1].payload.tag = "Ipv4"


\* The frames the interface sent while the last tick handled the
\* receive r.
EmittedFor(r) == SubSeq(hist.tx, r.sent0 + 1, r.sent1)

\* The ARP frames among the frames of tx.
ArpFramesOf(tx) == SelectSeq(tx, LAMBDA f : f.payload.tag = "Arp")

\* C29: on an interface with a configured IPv4 address, an ARP Request
\* that passes the destination filter and asks for that address makes
\* the interface emit one ARP frame, the Reply addressed to the
\* requester's MAC with sender_mac the local MAC, target_mac the
\* requester's MAC, sender_ip the local address and target_ip the
\* requester's IP; a Request for another address makes it emit no ARP
\* frame; both leave the requester's IP Known at the requester's MAC. On
\* an interface without IPv4 configuration an ARP frame leaves the cache
\* as it was and nothing is sent.
C29_ArpRequestHandling ==
    hist.op = "tick" =>
        \A i \in 1..Len(hist.rx) :
            LET r == hist.rx[i]
                arp == r.frame.payload.arp
            IN r.frame.payload.tag = "Arp" =>
                  IF ArpIface.ipv4.some
                  THEN (/\ is_multicast(r.frame.dst) \/ r.frame.dst = ArpIface.mac_addr
                        /\ arp.op = "Request") =>
                          /\ ArpFramesOf(EmittedFor(r)) =
                                IF arp.target_ip = ArpIface.ipv4.v.ip
                                THEN <<[src |-> ArpIface.mac_addr,
                                        dst |-> arp.sender_mac,
                                        payload |->
                                          [tag |-> "Arp",
                                           arp |-> [op |-> "Reply",
                                                    sender_mac |-> ArpIface.mac_addr,
                                                    target_mac |-> arp.sender_mac,
                                                    sender_ip |-> ArpIface.ipv4.v.ip,
                                                    target_ip |-> arp.sender_ip]]]>>
                                ELSE <<>>
                          /\ arp.sender_ip \in DOMAIN r.new
                          /\ r.new[arp.sender_ip] = [tag |-> "Known", mac |-> arp.sender_mac]
                  ELSE /\ r.new = r.old
                       /\ r.sent1 = r.sent0

\* IP1 asks for the interface's address while a packet for IP1 waits for
\* its MAC: the interface replies and, having learned the MAC from the
\* request, sends the waiting packet.
C29_Witness ==
    /\ hist.op = "tick"
    /\ ArpIface.ipv4.some
    /\ \E i \in 1..Len(hist.rx) :
          LET r == hist.rx[i]
          IN /\ r.frame.dst = BROADCAST
             /\ r.frame.payload.tag = "Arp"
             /\ r.frame.payload.arp.op = "Request"
             /\ r.frame.payload.arp.target_ip = IP0
             /\ IP1 \in DOMAIN r.old
             /\ r.old[IP1].tag = "Pending"
             /\ r.sent1 = r.sent0 + 2
             /\ r.new[IP1] = Known(MAC1)


(* ----------------------- More claims on LinkSpec ---------------------- *)

\* The node the LinkQueues record q names for the side whose queue is
\* name, and the node it names for the other side.
QueueOwner(q, name) == IF name = "queue_0" THEN q.node_0 ELSE q.node_1

QueuePeer(q, name) == IF name = "queue_0" THEN q.node_1 ELSE q.node_0

\* C30: for each link and each of its two queues, the frames waiting on
\* queue_X were sent by the node of the opposite side, and a recv that
\* takes a frame from queue_X is made by the node of side X: queue_0
\* holds the messages to be transferred to the first node of the link,
\* queue_1 those for the second.
C30_QueueDirection ==
    /\ \A i \in 1..Len(queues) : \A name \in {"queue_0", "queue_1"} :
          \A k \in 1..Len(queues[i][name]) :
              queues[i][name][k].from = QueuePeer(queues[i], name)
    /\ \A e \in 1..Len(obs) :
          obs[e].lis = 0 =>
              /\ obs[e].by = QueueOwner(queues[obs[e].link + 1], obs[e].rx)
              /\ obs[e].from = QueuePeer(queues[obs[e].link + 1], obs[e].rx)


(* ------------------------ More claims on Spec ------------------------- *)

\* The listeners subscribed for the frame type T, in subscription order.
ListenersOf(T) ==
    SelectSeq([l \in 1..Len(listeners) |-> l], LAMBDA l : listeners[l].ty = T)

\* C31: in a tick, each successful recv is followed at once by one call
\* for every subscribed listener whose frame type is the type of the
\* delivered frame, in subscription order and with that frame, and by no
\* other listener call: a listener of another type is not called for it.
C31_TypedDispatch ==
    hist.op = "tick" =>
        /\ obs # <<>> => obs[1].lis = 0
        /\ \A i \in 1..Len(obs) :
              obs[i].lis = 0 =>
                 LET hit == ListenersOf(queues[obs[i].link + 1].ty)
                     n == Len(hit)
                 IN /\ i + n <= Len(obs)
                    /\ \A k \in 1..n :
                          /\ obs[i + k].lis = hit[k]
                          /\ obs[i + k].data = obs[i].data
                          /\ obs[i + k].dst = obs[i].by
                    /\ i + n < Len(obs) => obs[i + n + 1].lis = 0

\* A listener for Ipv4Packet subscribed first and one for EthFrame
\* second; a frame is received over an EthFrame link and only the second
\* listener is called.
C31_Witness ==
    /\ hist.op = "tick"
    /\ Len(listeners) = 2
    /\ listeners[1].ty = "Ipv4Packet"
    /\ listeners[2].ty = "EthFrame"
    /\ \E i \in 1..Len(obs) :
          /\ obs[i].lis = 0
          /\ queues[obs[i].link + 1].ty = "EthFrame"
          /\ i + 1 <= Len(obs)
          /\ obs[i + 1].lis = 2
          /\ (i + 1 < Len(obs) => obs[i + 2].lis = 0)


(* --------------------- More claims on SwitchSpec ---------------------- *)

\* C32 as claimed: no frame the switch receives is sent on the interface
\* it was received on, flooded or forwarded.
C32_NeverBackToReceiver ==
    \A k \in 1..Len(SwRx) : SwCopies(k, SwRx[k].iface) = 0

\* C32, amended: a flooded frame is never sent on the interface it was
\* received on; a forwarded frame is sent on the interface the MAC table
\* maps its destination to, which is the receiving interface exactly
\* when the destination was learned there (as for a frame addressed to
\* its own source): it is then sent back once on the receiving interface.
C32_BackOnlyWhenLearnedThere ==
    \A k \in 1..Len(SwRx) :
        LET e == SwRx[k]
            back == /\ is_unicast(e.frame.dst)
                    /\ e.frame.dst \in DOMAIN e.table
                    /\ e.table[e.frame.dst] = e.iface
        IN SwCopies(k, e.iface) = IF back THEN 1 ELSE 0

\* A frame from MAC1 for MAC0 arrives on the interface MAC0 was learned
\* on and is sent back on it.
C32_Witness ==
    /\ hist.op = "tick"
    /\ \E k \in 1..Len(SwRx) :
          LET e == SwRx[k]
          IN /\ e.frame.src # e.frame.dst
             /\ e.frame.dst \in DOMAIN e.old
             /\ e.old[e.frame.dst] = e.iface
             /\ SwCopies(k, e.iface) = 1
             /\ SwWire(e.iface) = <<e.frame>>


\* What a tick of the switch sent and learned: for each interface, how
\* many times each frame was transmitted on it, and the MAC table left.
SwOutcome(tx, table) ==
    [sent |-> [j \in SwIfaces |->
                 [f \in SwFrames |->
                     Cardinality({i \in 1..Len(tx) :
                                     tx[i].iface = j /\ tx[i].frame = f})]],
     table |-> table]

\* The outcome of the switch's tick on the current state when its
\* interface map is iterated in the order p.
SwOutcomeIn(p) ==
    LET r == SwitchTick(Switch, queues, listeners, p, SwitchNode)
    IN SwOutcome(r.log.tx, r.node.mac_to_iface)

\* The frames waiting for the switch on its interface j.
SwWaiting(j) ==
    LET view == LinksGet(queues, Switch.link_handles[j])
    IN {queues[view.idx][view.rx][i].data :
           i \in 1..Len(queues[view.idx][view.rx])}

\* No frame waiting on one interface has the source MAC of a frame
\* waiting on another interface as its source or destination.
SwUnrelated ==
    \A i \in DOMAIN Switch.link_handles, j \in DOMAIN Switch.link_handles :
        i # j => \A f \in SwWaiting(i), g \in SwWaiting(j) :
                    f.src # g.src /\ f.dst # g.src

\* C33 as claimed: whatever frames wait on the switch's interfaces at
\* the start of a tick, the frames the tick transmits on each interface
\* (counted, not ordered) and the MAC table it leaves are those of every
\* other iteration order of the interface map.
C33_DrainOrderIndependent ==
    [][hist'.op = "tick" =>
          \A p \in PermSeqs(DOMAIN Switch.link_handles) :
              SwOutcomeIn(p) =
                 SwOutcome(hist'.sw.tx, nodes'[SwitchNode + 1].mac_to_iface)]_vars

\* C33, amended: when no frame waiting on one interface has the source
\* MAC of a frame waiting on another interface as its source or
\* destination, the frames the tick transmits on each interface
\* (counted, not ordered) and the MAC table it leaves are those of every
\* other iteration order of the interface map.
C33_UnrelatedOrderIndependent ==
    [][(hist'.op = "tick" /\ SwUnrelated) =>
          \A p \in PermSeqs(DOMAIN Switch.link_handles) :
              SwOutcomeIn(p) =
                 SwOutcome(hist'.sw.tx, nodes'[SwitchNode + 1].mac_to_iface)]_vars

\* One tick drained a broadcast from MAC0 on one interface and a frame
\* from MAC1 to MAC1 on another and transmitted both.
C33_Witness ==
    /\ hist.op = "tick"
    /\ \E k \in 1..Len(SwRx), l \in 1..Len(SwRx) :
          /\ SwRx[k].iface # SwRx[l].iface
          /\ SwRx[k].frame = EthFrame(MAC0, BROADCAST, Custom(1))
          /\ SwRx[l].frame = EthFrame(MAC1, MAC1, Custom(1))
          /\ SwCopies(k, SwRx[l].iface) = 1
          /\ SwCopies(l, SwRx[l].iface) = 1


(* ============================ RelaySpec ============================== *)
(* Two hosts exchange numbered frames through the switch of SwNet: host  *)
(* 0 (MAC0) sends to MAC1, host 1 (MAC1) sends to MAC0, and the network  *)
(* is ticked, in any interleaving.                                       *)

\* The MAC of host p and the MAC it sends to.
HostMac(p) == IF p = 0 THEN MAC0 ELSE MAC1

HostPeerMac(p) == IF p = 0 THEN MAC1 ELSE MAC0

\* The k-th frame sent in the run, by host p.
RelayFrame(p, k) == EthFrame(HostMac(p), HostPeerMac(p), Custom(k))

\* hist.meta[k] follows the k-th frame: its sender, the number of ticks
\* run before it was sent, the tick in which the switch drained it (0
\* while it has not) and whether the switch flooded or forwarded it.
RelayInit ==
    /\ nodes = SwNet.nodes
    /\ queues = SwNet.queues
    /\ listeners = SwNet.listeners
    /\ panicked = SwNet.panicked
    /\ obs = <<>>
    /\ hist = [op |-> "init", ticks |-> 0, meta |-> <<>>]

HostSend(p) ==
    /\ Len(hist.meta) < MaxSends
    /\ LET view == LinksGet(queues, nodes[p + 1].links[1])
       IN /\ view.err = "none"
          /\ queues' = LinkSend(queues, view, RelayFrame(p, Len(hist.meta) + 1), p)
    /\ hist' = [hist EXCEPT
                   !.op = "send",
                   !.meta = Append(@, [p |-> p, sent_at |-> hist.ticks,
                                       sw_at |-> 0, fwd |-> "none"])]
    /\ obs' = <<>>
    /\ UNCHANGED <<nodes, listeners, panicked>>

\* hist.meta after a tick in which the switch received rx.
RelayMeta(rx) ==
    [k \in 1..Len(hist.meta) |->
        LET is == {i \in 1..Len(rx) : rx[i].frame.payload.bytes = k}
        IN IF is = {}
           THEN hist.meta[k]
           ELSE LET e == rx[CHOOSE i \in is : TRUE]
                IN [hist.meta[k] EXCEPT
                       !.sw_at = hist.ticks + 1,
                       !.fwd = IF is_unicast(e.frame.dst)
                                  /\ e.frame.dst \in DOMAIN e.table
                               THEN "unicast" ELSE "flood"]]

\* The state a Network::tick with result r leaves.
RelayTickTo(r) ==
    /\ nodes' = r.nodes
    /\ queues' = r.qs
    /\ obs' = r.events
    /\ panicked' = r.err
    /\ hist' = [hist EXCEPT !.op = "tick", !.ticks = @ + 1,
                            !.meta = RelayMeta(r.logs[SwitchNode + 1].rx)]
    /\ UNCHANGED listeners

RelayTick ==
    /\ hist.ticks < MaxTicks
    /\ \E inps \in InputSeqs(nodes, 1, {}) :
          RelayTickTo(NetTick(nodes, queues, listeners, inps))

RelayNext ==
    \/ \E p \in 0..1 : HostSend(p)
    \/ RelayTick

RelaySpec == RelayInit /\ [][RelayNext]_vars


(* ------------------------ Claims on RelaySpec ------------------------- *)

\* The position in obs of the recv by which a host took the k-th frame
\* in the last tick, or 0.
TakenAt(k) ==
    LET is == {i \in 1..Len(obs) : /\ obs[i].lis = 0
                                   /\ obs[i].by # SwitchNode
                                   /\ obs[i].data.payload.bytes = k}
    IN IF is = {} THEN 0 ELSE CHOOSE i \in is : TRUE

\* Frames a and b were sent by the same host with no tick in between,
\* drained by the switch in one tick and forwarded as unicast to a
\* learned destination.
SameBatch(a, b) ==
    /\ hist.meta[a].p = hist.meta[b].p
    /\ hist.meta[a].sent_at = hist.meta[b].sent_at
    /\ hist.meta[a].sw_at = hist.meta[b].sw_at
    /\ hist.meta[a].fwd = "unicast"
    /\ hist.meta[b].fwd = "unicast"

\* C34: when a host sends f1 and then f2 with no tick in between to the
\* same destination MAC, the switch drains both in one tick and forwards
\* both as unicast, and the destination host drains both in one tick,
\* the destination host receives f1 before f2, and no other host
\* receives either.
C34_OrderThroughSwitch ==
    hist.op = "tick" =>
        \A a \in 1..Len(hist.meta), b \in 1..Len(hist.meta) :
            (a < b /\ SameBatch(a, b) /\ TakenAt(a) # 0 /\ TakenAt(b) # 0) =>
                /\ TakenAt(a) < TakenAt(b)
                /\ obs[TakenAt(a)].by = 1 - hist.meta[a].p
                /\ obs[TakenAt(b)].by = 1 - hist.meta[b].p

\* Host 0 sent two frames for MAC1, which the switch had learned; the
\* switch forwarded both in one tick and host 1 took both in this tick.
C34_Witness ==
    /\ hist.op = "tick"
    /\ \E a \in 1..Len(hist.meta), b \in 1..Len(hist.meta) :
          /\ a < b
          /\ SameBatch(a, b)
          /\ hist.meta[a].p = 0
          /\ TakenAt(a) # 0
          /\ TakenAt(b) # 0
          /\ obs[TakenAt(a)].by = 1


(* ============================ QuietSpec ============================== *)
(* A tree of two switches and three servers: H0 and H1 hang on switch A, *)
(* H4 hangs on switch B, and A's interface 2 is linked to B's interface  *)
(* 0. H4's MAC is either its own or, misconfigured, the MAC of H0. The   *)
(* drivers of the servers are handed IPv4 packets (QSend) and the        *)
(* network is ticked, in any interleaving.                               *)

\* Ticks without a send after which the network is expected to be idle.
QuietTicks == 6

SwitchA == 2

SwitchB == 3

QuietIps == <<IP0, IP1, None, None, IP2>>

\* The servers whose drivers are handed packets, with the link address.
QuietSends == {<<0, IP1>>, <<4, IP1>>, <<1, IP0>>}

QuietNet(mac4) ==
    LET n0 == NetPush(NetPush(NetPush(NetPush(NetPush(NewNetwork,
                  S3Pc(MAC0)), S3Pc(MAC1)), EthSwitch), EthSwitch), S3Pc(mac4))
        n1 == NetLink(n0, "EthFrame", 0, 0, SwitchA, 0)
        n2 == NetLink(n1, "EthFrame", 1, 0, SwitchA, 1)
        n3 == NetLink(n2, "EthFrame", SwitchA, 2, SwitchB, 0)
        n4 == NetLink(n3, "EthFrame", 4, 0, SwitchB, 1)
    IN [n4 EXCEPT
          !.nodes[1].ifaces[0].ipv4 = Some(ServerIfaceIpv4(IP0, 24)),
          !.nodes[2].ifaces[0].ipv4 = Some(ServerIfaceIpv4(IP1, 24)),
          !.nodes[5].ifaces[0].ipv4 = Some(ServerIfaceIpv4(IP2, 24))]

\* hist: sends counts the packets handed to drivers, idle the ticks run
\* since the last of them (up to QuietTicks), emitted tells whether a
\* node sent a frame in the last tick.
QuietInit ==
    /\ \E mac4 \in {MAC0, MAC2} :
          /\ nodes = QuietNet(mac4).nodes
          /\ queues = QuietNet(mac4).queues
          /\ listeners = QuietNet(mac4).listeners
          /\ panicked = QuietNet(mac4).panicked
    /\ obs = <<>>
    /\ hist = [op |-> "init", sends |-> 0, idle |-> 0, emitted |-> FALSE]

\* The state a driver's send_ipv4 with result is leaves on server h.
QSendTo(h, is) ==
    /\ nodes' = [nodes EXCEPT ![h + 1].ifaces[0].arp_cache = is.arp_cache]
    /\ queues' = is.qs
    /\ hist' = [op |-> "send", sends |-> hist.sends + 1, idle |-> 0,
                emitted |-> is.tx # <<>>]

\* The driver of server h is handed a packet for link_addr.
QSend(h, link_addr) ==
    /\ hist.sends < MaxPackets
    /\ LET iface == nodes[h + 1].ifaces[0]
           view == LinksGet(queues, iface.link.v)
       IN /\ view.err = "none"
          /\ QSendTo(h,
                send_ipv4([qs |-> queues, events |-> <<>>, err |-> "none",
                           arp_cache |-> iface.arp_cache,
                           tx |-> <<>>, rx |-> <<>>],
                          view, iface.mac_addr, iface.ipv4.v,
                          Ipv4Packet(QuietIps[h + 1], link_addr,
                                     Custom(hist.sends + 1)),
                          link_addr, 0, h))
    /\ obs' = <<>>
    /\ UNCHANGED <<listeners, panicked>>

\* A node's log of a tick shows a sent frame.
LogEmits(node, log) ==
    IF node.kind = "switch"
    THEN log.tx # <<>>
    ELSE \E i \in DOMAIN log : log[i].tx # <<>>

\* The state a Network::tick with result r leaves.
QTickTo(r) ==
    /\ nodes' = r.nodes
    /\ queues' = r.qs
    /\ obs' = r.events
    /\ panicked' = r.err
    /\ hist' = [hist EXCEPT
                   !.op = "tick",
                   !.idle = IF @ < QuietTicks THEN @ + 1 ELSE @,
                   !.emitted = \E n \in 1..Len(nodes) : LogEmits(nodes[n], r.logs[n])]
    /\ UNCHANGED listeners

QTick ==
    \E inps \in InputSeqs(nodes, 1, {}) :
       QTickTo(NetTick(nodes, queues, listeners, inps))

QuietNext ==
    \/ \E s \in QuietSends : QSend(s[1], s[2])
    \/ QTick

QuietSpec == QuietInit /\ [][QuietNext]_vars


(* ------------------------ Claims on QuietSpec ------------------------- *)

\* No frame waits on any link.
QueuesEmpty ==
    \A i \in 1..Len(queues) : queues[i].queue_0 = <<>> /\ queues[i].queue_1 = <<>>

\* The interfaces of the servers have pairwise different MACs.
DistinctMacs == nodes[5].ifaces[0].mac_addr # nodes[1].ifaces[0].mac_addr

FetchWalk(rt, ip, n, build) ==
    FetchCalls(rt, [ip |-> ip, recursion |-> FetchRecursion, done |-> FALSE,
                    err |-> "none", v |-> None], n, build)

\* Resolution steps of a walk: the next hops it followed.
FetchSteps(x) == FetchRecursion - x.recursion

\* The resolution of ip runs in a cycle: two calls of fetch_inner, neither
\* the last, are made for the same address.
InCycle(rt, ip, build) ==
    \E m \in 0..Len(rt.routes), n \in 1..(Len(rt.routes) + 1) :
        /\ m < n
        /\ ~FetchWalk(rt, ip, n, build).done
        /\ FetchWalk(rt, ip, m, build).ip = FetchWalk(rt, ip, n, build).ip

\* C36: IpRoutes::fetch terminates for every route table and address:
\* the outermost call has ended after at most FetchRecursion + 1 nested
\* calls, which followed at most FetchRecursion next hops, and a walk
\* that uses up the budget returns none. When the resolution runs in a
\* cycle the walk follows exactly FetchRecursion next hops and fetch
\* returns none.
C36_FetchTerminates ==
    hist.op = "fetch" =>
        LET w == FetchWalk(RouteTable, hist.ip.v, FetchRecursion + 1, hist.build)
        IN /\ w.done
           /\ FetchSteps(w) <= FetchRecursion
           /\ hist.res = w.v
           /\ w.recursion = 0 => hist.res = None
           /\ InCycle(RouteTable, hist.ip.v, hist.build) =>
                 /\ FetchSteps(w) = FetchRecursion
                 /\ hist.res = None
                 /\ panicked = "none"

\* A fetch of 192.168.2.1 on a table whose /16 route sends it to the next
\* hop 192.168.1.11, which the earlier /24 route sends to itself: the
\* cycle does not hold the address looked up, and fetch returned none.
C36_Witness ==
    /\ hist.op = "fetch"
    /\ hist.ip = Some(<<192, 168, 2, 1>>)
    /\ Len(RouteTable.routes) = 2
    /\ RouteTable.routes[1] = Route(take_prefix(IP1, 24), NextHop(IP1))
    /\ RouteTable.routes[2].kind = NextHop(IP1)
    /\ InCycle(RouteTable, hist.ip.v, hist.build)
    /\ hist.res = None
    /\ panicked = "none"

====
